---- MODULE Spec2Model ----
(***************************************************************************)
(* pingcode-mcp: the rich-text renderer, the HTML sanitizer, the field     *)
(* formatter and the getWorkItem tool of src/tools/work-items.ts.          *)
(*                                                                         *)
(* A JavaScript string is a sequence of characters: one-character TLA+     *)
(* strings, and "U+XXXX" for a character outside printable ASCII or a      *)
(* backtick.  A JavaScript value is a record tagged by its type; Throw is  *)
(* the abrupt completion of a call that raised an exception.               *)
(***************************************************************************)
EXTENDS Integers, Sequences, FiniteSets, TLC

VARIABLES
    \* RenderSpec: the renderer call [fn, arg], its result, and whether it was made
    rinput, rendered, rpc,
    \* WalkSpec: the content being rendered, the stack of renderer calls in
    \* progress, the outcome and the result
    wcontent, stack, wstate, wresult,
    \* StripSpec: the HTML given to stripHtml, its output, the output of
    \* stripHtml on that output, and how far the two calls have got
    shtml, sonce, stwice, spc,
    \* FormatSpec: the raw record given to formatWorkItem, the host's time zone,
    \* the result, the document getWorkItemString makes of the result, and how far
    \* the two calls have got
    fitem, fzone, fout, fdoc, fpc,
    \* TimeSpec: the timestamp given to formatTimestamp, the host's time zone, the
    \* rendering of the timestamp, the rendering of 1000 times the timestamp, and how
    \* far the two calls have got
    tstamp, tzone, tsec, tms, tpc,
    \* PipelineSpec: the time zone of the host the process runs on, and the log of the
    \* records the process has put through the formatting pipeline, each with what
    \* the pipeline made of it
    phost, plog,
    \* ClientSpec: the tracker and the session the client talks to, the identifier X
    \* asked for, the host's time zone, the result of the tool for X and for "#" + X,
    \* and how far the two calls have got
    tracker, asked, czone, cbare, chash, cpc,
    \* Spec: the identifier given to the getWorkItem tool, what the client did,
    \* the host's time zone, the tool's result, the response of the server's
    \* get_work_item handler, and whether the call was made
    identifier, client, hostZone, result, response, pc,
    \* AuthSpec, MethodSpec and DetailsSpec: the content of the credentials file, the
    \* clock in seconds, whether logout has returned with no successful login since,
    \* the last call (its name, whether the credentials were valid when it was made,
    \* and its outcome), and how far the fetch by getWorkItemWithDetails has got
    credfile, now, loggedOut, alast, dpc,
    \* ReleaseSpec: the items of the release, the item_type asked for, the member map
    \* of the project, the id of the current user, what getReleaseWorkItems did, the
    \* result of the tool, and whether the call was made
    litems, ltype, lmembers, luser, lkept, lout, lpc,
    \* UpdateSpec: the selectable states, the state name asked for, the state the
    \* tracker holds for the work item, the result of the tool, the state ids of the
    \* update requests sent, and whether the call was made
    ustates, uname, ustate, uresult, usent, upc

----------------------------------------------------------------------------
(* JavaScript values *)

Undef == [t |-> "undefined"]
Null == [t |-> "null"]
Bool(b) == [t |-> "boolean", v |-> b]
\* a number is q * 10^6 + r with 0 <= r < 10^6, so that a timestamp in
\* milliseconds is held without overflow
BigNum(q, r) == [t |-> "number", v |-> <<q, r>>]
Num(n) == BigNum(n \div 1000000, n % 1000000)
Str(s) == [t |-> "string", v |-> s]
Arr(e) == [t |-> "array", v |-> e]
Obj(f) == [t |-> "object", v |-> f]
\* a function object, such as a member inherited from Object.prototype
Fun(name) == [t |-> "function", v |-> name]
\* an uncaught exception
Throw == [t |-> "throw"]
\* no call made yet
NoValue == [t |-> "none"]

IsNullish(v) == v.t \in {"undefined", "null"}
IsArr(v) == v.t = "array"
IsStr(v) == v.t = "string"

\* ToBoolean
Truthy(v) ==
    CASE v.t \in {"undefined", "null"} -> FALSE
      [] v.t = "boolean" -> v.v
      [] v.t = "number" -> v.v # <<0, 0>>
      [] v.t = "string" -> v.v # <<>>
      [] OTHER -> TRUE

\* a || b
Or(a, b) == IF Truthy(a) THEN a ELSE b

\* v.k for a non-nullish v: an own data property, else undefined
Get(v, k) == IF v.t = "object" /\ k \in DOMAIN v.v THEN v.v[k] ELSE Undef

\* v?.k
OptGet(v, k) == IF IsNullish(v) THEN Undef ELSE Get(v, k)

----------------------------------------------------------------------------
(* string literals of the source *)

S_undefined == <<"u", "n", "d", "e", "f", "i", "n", "e", "d">>
S_null == <<"n", "u", "l", "l">>
S_true == <<"t", "r", "u", "e">>
S_false == <<"f", "a", "l", "s", "e">>
S_objectObject == <<"[", "o", "b", "j", "e", "c", "t", " ", "O", "b", "j", "e", "c", "t", "]">>
S_link == <<"l", "i", "n", "k">>
S_mention == <<"m", "e", "n", "t", "i", "o", "n">>
S_image == <<"i", "m", "a", "g", "e">>
S_paragraph == <<"p", "a", "r", "a", "g", "r", "a", "p", "h">>
S_code == <<"c", "o", "d", "e">>
S_blockquote == <<"b", "l", "o", "c", "k", "q", "u", "o", "t", "e">>
S_bulleted_list == <<"b", "u", "l", "l", "e", "t", "e", "d", "-", "l", "i", "s", "t">>
S_numbered_list == <<"n", "u", "m", "b", "e", "r", "e", "d", "-", "l", "i", "s", "t">>
S_list_item == <<"l", "i", "s", "t", "-", "i", "t", "e", "m">>
\* '[图片]('
S_imageOpen == <<"[", "U+56FE", "U+7247", "]", "(">>
\* '用户'
S_user == <<"U+7528", "U+6237">>
\* three backticks (U+0060)
S_fence == <<"U+0060", "U+0060", "U+0060">>
S_quotePrefix == <<">", " ">>
S_bulletPrefix == <<"-", " ">>
S_dotSpace == <<".", " ">>

----------------------------------------------------------------------------
(* string conversion *)

Digits == <<"0", "1", "2", "3", "4", "5", "6", "7", "8", "9">>

RECURSIVE NatToStr(_)
NatToStr(n) == IF n < 10 THEN <<Digits[n + 1]>> ELSE NatToStr(n \div 10) \o <<Digits[(n % 10) + 1]>>

\* the decimal digits of n < 10^6, padded with zeros to six places
SixDigits(n) == SubSeq(NatToStr(1000000 + n), 2, 7)

\* Number.prototype.toString of an integer q * 10^6 + r
PairToStr(q, r) ==
    IF q >= 0
    THEN IF q = 0 THEN NatToStr(r) ELSE NatToStr(q) \o SixDigits(r)
    ELSE LET nq == IF r = 0 THEN -q ELSE -q - 1
             nr == IF r = 0 THEN 0 ELSE 1000000 - r
         IN <<"-">> \o (IF nq = 0 THEN NatToStr(nr) ELSE NatToStr(nq) \o SixDigits(nr))

NumToStr(n) == PairToStr(n \div 1000000, n % 1000000)

RECURSIVE ToStr(_)
RECURSIVE Join(_, _)

\* Array.prototype.join: null and undefined elements give the empty string
Join(e, sep) ==
    IF e = <<>> THEN <<>>
    ELSE LET first == IF IsNullish(e[1]) THEN <<>> ELSE ToStr(e[1])
         IN IF Len(e) = 1 THEN first ELSE first \o sep \o Join(Tail(e), sep)

\* ToString, as applied by a template literal and by join
ToStr(v) ==
    CASE v.t = "string" -> v.v
      [] v.t = "undefined" -> S_undefined
      [] v.t = "null" -> S_null
      [] v.t = "boolean" -> IF v.v THEN S_true ELSE S_false
      [] v.t = "number" -> PairToStr(v.v[1], v.v[2])
      [] v.t = "array" -> Join(v.v, <<",">>)
      [] v.t = "object" -> S_objectObject
      [] v.t = "function" ->
           <<"f", "u", "n", "c", "t", "i", "o", "n", " ">> \o v.v
             \o <<"(", ")", " ", "{", " ", "[", "n", "a", "t", "i", "v", "e", " ", "c", "o", "d", "e", "]", " ", "}">>

\* whether a callback of Array.prototype.map raised
MapThrows(results) == \E i \in DOMAIN results : results[i] = Throw

RECURSIVE Split(_, _)
\* String.prototype.split on a one-character separator
Split(s, c) ==
    IF \A i \in DOMAIN s : s[i] # c THEN <<s>>
    ELSE LET k == CHOOSE i \in DOMAIN s : s[i] = c /\ \A j \in 1..(i - 1) : s[j] # c
         IN <<SubSeq(s, 1, k - 1)>> \o Split(SubSeq(s, k + 1, Len(s)), c)

WhiteSpace == {" ", "\n", "\t", "\r", "U+00A0"}

RECURSIVE TrimStart(_)
TrimStart(s) == IF s # <<>> /\ s[1] \in WhiteSpace THEN TrimStart(Tail(s)) ELSE s

RECURSIVE TrimEnd(_)
TrimEnd(s) == IF s # <<>> /\ s[Len(s)] \in WhiteSpace THEN TrimEnd(SubSeq(s, 1, Len(s) - 1)) ELSE s

\* String.prototype.trim
Trim(s) == TrimEnd(TrimStart(s))

----------------------------------------------------------------------------
(* formatTimestamp *)

S_invalidDate == <<"I", "n", "v", "a", "l", "i", "d", " ", "D", "a", "t", "e">>

IsDigits(s) == \A i \in 1..Len(s) : \E d \in 1..10 : Digits[d] = s[i]

RECURSIVE DigitsToNat(_)
DigitsToNat(s) ==
    IF s = <<>> THEN 0
    ELSE 10 * DigitsToNat(SubSeq(s, 1, Len(s) - 1))
           + (CHOOSE d \in 0..9 : Digits[d + 1] = s[Len(s)])

NaN == [nan |-> TRUE, q |-> 0, r |-> 0]
Finite(q, r) == [nan |-> FALSE, q |-> q, r |-> r]

RECURSIVE ToNumber(_)
\* ToNumber, as applied by > and by * to a value that is not a number
ToNumber(v) ==
    CASE v.t = "number" -> Finite(v.v[1], v.v[2])
      [] v.t = "string" ->
           LET s == Trim(v.v)
           IN IF ~IsDigits(s) THEN NaN
              ELSE IF Len(s) <= 6 THEN Finite(0, DigitsToNat(s))
              ELSE Finite(DigitsToNat(SubSeq(s, 1, Len(s) - 6)),
                          DigitsToNat(SubSeq(s, Len(s) - 5, Len(s))))
      [] v.t = "boolean" -> Finite(0, IF v.v THEN 1 ELSE 0)
      [] v.t = "null" -> Finite(0, 0)
      [] v.t = "array" -> ToNumber(Str(ToStr(v)))
      [] OTHER -> NaN

TwoDigits(n) == SubSeq(NatToStr(100 + n), 2, 3)

\* the year, month and day of the day that is z days after 1970-01-01
CivilFromDays(z) ==
    LET zz == z + 719468
        era == zz \div 146097
        doe == zz - era * 146097
        yoe == (doe - doe \div 1460 + doe \div 36524 - doe \div 146096) \div 365
        doy == doe - (365 * yoe + yoe \div 4 - yoe \div 100)
        mp == (5 * doy + 2) \div 153
        d == doy - (153 * mp + 2) \div 5 + 1
        m == IF mp < 10 THEN mp + 3 ELSE mp - 9
        y == yoe + era * 400 + (IF m <= 2 THEN 1 ELSE 0)
    IN [year |-> y, month |-> m, day |-> d]

\* new Date(ms).toLocaleString('zh-CN', ...) for ms = q * 10^6 + r, on a host
\* whose clock is tz minutes east of UTC
DateToLocaleString(q, r, tz) ==
    LET tenDays == q \div 864
        x == (q % 864) * 1000 + r \div 1000 + tz * 60
        date == CivilFromDays(tenDays * 10 + x \div 86400)
        sod == x % 86400
    IN NumToStr(date.year) \o <<"/">> \o TwoDigits(date.month) \o <<"/">> \o TwoDigits(date.day)
         \o <<" ">> \o TwoDigits(sod \div 3600) \o <<":">> \o TwoDigits((sod % 3600) \div 60)

\* a conversion that takes every timestamp as seconds
formatTimestampAsSeconds(ts, tz) ==
    IF ~Truthy(ts) THEN <<>>
    ELSE LET n == ToNumber(ts)
         IN IF n.nan THEN S_invalidDate
            ELSE DateToLocaleString(n.q * 1000 + (n.r * 1000) \div 1000000,
                                    (n.r * 1000) % 1000000, tz)

\* formatTimestamp(ts) on a host whose clock is tz minutes east of UTC
formatTimestamp(ts, tz) ==
    IF ~Truthy(ts) THEN <<>>
    ELSE LET n == ToNumber(ts)
         IN IF n.nan THEN S_invalidDate
            ELSE IF n.q > 1000000 \/ (n.q = 1000000 /\ n.r > 0)
            THEN DateToLocaleString(n.q, n.r, tz)
            ELSE DateToLocaleString(n.q * 1000 + (n.r * 1000) \div 1000000,
                                    (n.r * 1000) % 1000000, tz)

----------------------------------------------------------------------------
(* stripHtml: the regular expressions, matched as the engine matches them *)

UpperCase == <<"A", "B", "C", "D", "E", "F", "G", "H", "I", "J", "K", "L", "M",
               "N", "O", "P", "Q", "R", "S", "T", "U", "V", "W", "X", "Y", "Z">>
LowerCase == <<"a", "b", "c", "d", "e", "f", "g", "h", "i", "j", "k", "l", "m",
               "n", "o", "p", "q", "r", "s", "t", "u", "v", "w", "x", "y", "z">>

\* the folding of the i flag
Lower(c) ==
    IF \E i \in 1..Len(UpperCase) : UpperCase[i] = c
    THEN LowerCase[CHOOSE i \in 1..Len(UpperCase) : UpperCase[i] = c]
    ELSE c

\* pat occurs in s at position i
PrefixAt(s, i, pat) ==
    /\ i + Len(pat) - 1 <= Len(s)
    /\ \A p \in 1..Len(pat) : s[i + p - 1] = pat[p]

\* pat, in lower case, occurs in s at position i whatever the case of s
PrefixAtCI(s, i, pat) ==
    /\ i + Len(pat) - 1 <= Len(s)
    /\ \A p \in 1..Len(pat) : Lower(s[i + p - 1]) = pat[p]

RECURSIVE IndexFrom(_, _, _)
\* the first position of c in s at or after i, 0 when there is none
IndexFrom(s, c, i) ==
    IF i > Len(s) THEN 0
    ELSE IF s[i] = c THEN i
    ELSE IndexFrom(s, c, i + 1)

RECURSIVE SkipSpace(_, _)
\* the first position at or after i that holds no white space
SkipSpace(s, i) == IF i <= Len(s) /\ s[i] \in WhiteSpace THEN SkipSpace(s, i + 1) ELSE i

RECURSIVE RunEnd(_, _)
\* the last position of the run of newlines that starts at i
RunEnd(s, i) == IF i + 1 <= Len(s) /\ s[i + 1] = "\n" THEN RunEnd(s, i + 1) ELSE i

S_imgOpen == <<"<", "i", "m", "g">>
S_srcOpen == <<"s", "r", "c", "=", "\"">>
S_brOpen == <<"<", "b", "r">>
S_pClose == <<"<", "/", "p", ">">>
S_nbsp == <<"&", "n", "b", "s", "p", ";">>
S_lt == <<"&", "l", "t", ";">>
S_gt == <<"&", "g", "t", ";">>
S_amp == <<"&", "a", "m", "p", ";">>

\* /<img[^>]*src="([^"]*)"[^>]*>/ at i: the positions where src=" can start.
\* [^>]* stops before the first > ; [^"]* runs to the next quote, over any > ;
\* the tag then closes at the first > after that quote
ImgSrcStarts(s, i) ==
    {j \in (i + 4)..Len(s) :
        /\ \A p \in (i + 4)..(j - 1) : s[p] # ">"
        /\ PrefixAtCI(s, j, S_srcOpen)
        /\ IndexFrom(s, "\"", j + 5) # 0
        /\ IndexFrom(s, ">", IndexFrom(s, "\"", j + 5) + 1) # 0}

\* the greedy [^>]* takes the last of them
ImgSrcStart(s, i) == CHOOSE j \in ImgSrcStarts(s, i) : \A k \in ImgSrcStarts(s, i) : k <= j

ImgQuote(s, i) == IndexFrom(s, "\"", ImgSrcStart(s, i) + 5)

\* the last position of the match of a pattern of stripHtml that starts at i,
\* 0 when the pattern does not match there
MatchEnd(rx, s, i) ==
    CASE rx = "img" ->
           IF PrefixAtCI(s, i, S_imgOpen) /\ ImgSrcStarts(s, i) # {}
           THEN IndexFrom(s, ">", ImgQuote(s, i) + 1)
           ELSE 0
      [] rx = "br" ->
           IF PrefixAtCI(s, i, S_brOpen)
           THEN LET p == SkipSpace(s, i + 3)
                    q == IF p <= Len(s) /\ s[p] = "/" THEN p + 1 ELSE p
                IN IF q <= Len(s) /\ s[q] = ">" THEN q ELSE 0
           ELSE 0
      [] rx = "p" -> IF PrefixAtCI(s, i, S_pClose) THEN i + 3 ELSE 0
      [] rx = "tag" ->
           IF s[i] = "<" /\ i + 1 <= Len(s) /\ s[i + 1] # ">"
           THEN IndexFrom(s, ">", i + 2)
           ELSE 0
      [] rx = "nbsp" -> IF PrefixAt(s, i, S_nbsp) THEN i + 5 ELSE 0
      [] rx = "lt" -> IF PrefixAt(s, i, S_lt) THEN i + 3 ELSE 0
      [] rx = "gt" -> IF PrefixAt(s, i, S_gt) THEN i + 3 ELSE 0
      [] rx = "amp" -> IF PrefixAt(s, i, S_amp) THEN i + 4 ELSE 0
      [] rx = "newlines" ->
           IF s[i] = "\n" /\ RunEnd(s, i) >= i + 2 THEN RunEnd(s, i) ELSE 0

\* what replaces the match of a pattern that starts at i
Replacement(rx, s, i) ==
    CASE rx = "img" ->
           S_imageOpen \o SubSeq(s, ImgSrcStart(s, i) + 5, ImgQuote(s, i) - 1) \o <<")">>
      [] rx \in {"br", "p"} -> <<"\n">>
      [] rx = "tag" -> <<>>
      [] rx = "nbsp" -> <<" ">>
      [] rx = "lt" -> <<"<">>
      [] rx = "gt" -> <<">">>
      [] rx = "amp" -> <<"&">>
      [] rx = "newlines" -> <<"\n", "\n">>

RECURSIVE ReplaceFrom(_, _, _)
\* String.prototype.replace with the g flag: matches are taken left to right
\* and do not overlap
ReplaceFrom(rx, s, i) ==
    IF i > Len(s) THEN <<>>
    ELSE LET e == MatchEnd(rx, s, i)
         IN IF e = 0
            THEN <<s[i]>> \o ReplaceFrom(rx, s, i + 1)
            ELSE Replacement(rx, s, i) \o ReplaceFrom(rx, s, e + 1)

ReplaceAll(rx, s) == ReplaceFrom(rx, s, 1)

\* the patterns of stripHtml in the order they are applied
StripPasses == <<"img", "br", "p", "tag", "nbsp", "lt", "gt", "amp", "newlines">>

RECURSIVE ApplyPasses(_, _)
ApplyPasses(s, k) ==
    IF k > Len(StripPasses) THEN s ELSE ApplyPasses(ReplaceAll(StripPasses[k], s), k + 1)

\* stripHtml of a string of characters
stripHtml(html) == IF html = <<>> THEN <<>> ELSE Trim(ApplyPasses(html, 1))

----------------------------------------------------------------------------
(* the rich-text renderer *)

RECURSIVE parseInlineElement(_)
RECURSIVE parseBlockElement(_)

\* children.map(f).join(sep) for the results of f, when children is an array
\* (results \o <<>> is results, held as a tuple so that each callback is evaluated once)
JoinResults(results, sep) ==
    LET r == results \o <<>>
    IN IF MapThrows(r) THEN Throw ELSE Str(Join(r, sep))

\* case 'link' of parseInlineElement
InlineLink(child) ==
    LET children == Get(child, "children")
        url == Get(child, "url")
        texts == [i \in 1..Len(children.v) |->
                    IF IsNullish(children.v[i]) THEN Throw
                    ELSE Or(Get(children.v[i], "text"), Str(<<>>))]
        joined == IF IsNullish(children) THEN Undef
                  ELSE IF ~IsArr(children) THEN Throw
                  ELSE JoinResults(texts, <<>>)
    IN IF joined = Throw THEN Throw
       ELSE Str(<<"[">> \o ToStr(Or(joined, url)) \o <<"]", "(">> \o ToStr(url) \o <<")">>)

\* case 'mention' of parseInlineElement
InlineMention(child) ==
    Str(<<"@">> \o ToStr(Or(Get(child, "display_name"), Or(Get(child, "text"), Str(S_user)))))

\* default case of parseInlineElement
InlineDefault(child) ==
    LET children == Get(child, "children")
    IN IF Truthy(children)
       THEN IF ~IsArr(children) THEN Throw
            ELSE JoinResults([i \in 1..Len(children.v) |-> parseInlineElement(children.v[i])], <<>>)
       ELSE Or(Get(child, "text"), Str(<<>>))

parseInlineElement(child) ==
    IF IsNullish(child) THEN Throw
    ELSE IF ~Truthy(Get(child, "type")) THEN Or(Get(child, "text"), Str(<<>>))
    ELSE LET type == Get(child, "type")
         IN CASE type = Str(S_link) -> InlineLink(child)
              [] type = Str(S_mention) -> InlineMention(child)
              [] type = Str(S_image) -> Str(S_imageOpen \o ToStr(Or(Get(child, "url"), Str(<<>>))) \o <<")">>)
              [] OTHER -> InlineDefault(child)

\* case 'paragraph' of parseBlockElement
BlockParagraph(block) ==
    LET children == Get(block, "children")
    IN IF Truthy(children)
       THEN IF ~IsArr(children) THEN Throw
            ELSE JoinResults([i \in 1..Len(children.v) |-> parseInlineElement(children.v[i])], <<>>)
       ELSE Str(<<>>)

\* case 'code' of parseBlockElement
BlockCode(block) ==
    LET lang == Or(Get(block, "language"), Str(<<>>))
        code == Or(Get(block, "content"), Str(<<>>))
    IN Str(S_fence \o ToStr(lang) \o <<"\n">> \o ToStr(code) \o <<"\n">> \o S_fence)

\* a quote that prefixes its first line only
QuoteFirstLine(quoteContent) == S_quotePrefix \o quoteContent

\* quoteContent.split('\n').map(line => `> ${line}`).join('\n')
QuoteLines(quoteContent) ==
    LET lines == Split(quoteContent, "\n")
    IN Join([i \in 1..Len(lines) |-> Str(S_quotePrefix \o lines[i])], <<"\n">>)

\* case 'blockquote' of parseBlockElement
BlockQuote(block) ==
    LET children == Get(block, "children")
        quoteContent == JoinResults([i \in 1..Len(children.v) |-> parseBlockElement(children.v[i])], <<"\n">>)
    IN IF Truthy(children)
       THEN IF ~IsArr(children) \/ quoteContent = Throw THEN Throw
            ELSE Str(QuoteLines(quoteContent.v))
       ELSE Str(<<>>)

\* a list whose numbering starts at 0
ListItemLineFromZero(block, item, index) ==
    LET prefix == IF Get(block, "type") = Str(S_numbered_list)
                  THEN NumToStr(index) \o S_dotSpace
                  ELSE S_bulletPrefix
        children == IF IsNullish(item) THEN Throw ELSE Get(item, "children")
        itemContent == IF children = Throw THEN Throw
                       ELSE IF IsNullish(children) THEN Str(<<>>)
                       ELSE IF ~IsArr(children) THEN Throw
                       ELSE JoinResults([i \in 1..Len(children.v) |-> parseBlockElement(children.v[i])], <<>>)
    IN IF itemContent = Throw THEN Throw ELSE Str(prefix \o itemContent.v)

\* the callback of block.children.map in the list case, for item at position index (from 0)
ListItemLine(block, item, index) ==
    LET prefix == IF Get(block, "type") = Str(S_numbered_list)
                  THEN NumToStr(index + 1) \o S_dotSpace
                  ELSE S_bulletPrefix
        children == IF IsNullish(item) THEN Throw ELSE Get(item, "children")
        itemContent == IF children = Throw THEN Throw
                       ELSE IF IsNullish(children) THEN Str(<<>>)
                       ELSE IF ~IsArr(children) THEN Throw
                       ELSE JoinResults([i \in 1..Len(children.v) |-> parseBlockElement(children.v[i])], <<>>)
    IN IF itemContent = Throw THEN Throw ELSE Str(prefix \o itemContent.v)

\* cases 'bulleted-list' and 'numbered-list' of parseBlockElement
BlockList(block) ==
    LET children == Get(block, "children")
    IN IF Truthy(children)
       THEN IF ~IsArr(children) THEN Throw
            ELSE JoinResults([i \in 1..Len(children.v) |-> ListItemLine(block, children.v[i], i - 1)], <<"\n">>)
       ELSE Str(<<>>)

\* case 'list-item' of parseBlockElement
BlockListItem(block) ==
    LET children == Get(block, "children")
    IN IF Truthy(children)
       THEN IF ~IsArr(children) THEN Throw
            ELSE JoinResults([i \in 1..Len(children.v) |-> parseBlockElement(children.v[i])], <<>>)
       ELSE Str(<<>>)

\* a default case that renders the children by their block rules
BlockDefaultByBlockRule(block) ==
    LET children == Get(block, "children")
    IN IF Truthy(children)
       THEN IF ~IsArr(children) THEN Throw
            ELSE JoinResults([i \in 1..Len(children.v) |-> parseBlockElement(children.v[i])], <<>>)
       ELSE Or(Get(block, "text"), Or(Get(block, "content"), Str(<<>>)))

\* default case of parseBlockElement
BlockDefault(block) ==
    LET children == Get(block, "children")
    IN IF Truthy(children)
       THEN IF ~IsArr(children) THEN Throw
            ELSE JoinResults([i \in 1..Len(children.v) |-> parseInlineElement(children.v[i])], <<>>)
       ELSE Or(Get(block, "text"), Or(Get(block, "content"), Str(<<>>)))

parseBlockElement(block) ==
    IF IsNullish(block) THEN Throw
    ELSE IF ~Truthy(Get(block, "type")) THEN Or(Get(block, "text"), Str(<<>>))
    ELSE LET type == Get(block, "type")
         IN CASE type = Str(S_paragraph) -> BlockParagraph(block)
              [] type = Str(S_code) -> BlockCode(block)
              [] type = Str(S_image) -> Str(S_imageOpen \o ToStr(Or(Get(block, "url"), Str(<<>>))) \o <<")">>)
              [] type = Str(S_blockquote) -> BlockQuote(block)
              [] type \in {Str(S_bulleted_list), Str(S_numbered_list)} -> BlockList(block)
              [] type = Str(S_list_item) -> BlockListItem(block)
              [] OTHER -> BlockDefault(block)

parseCommentContent(content) ==
    IF ~Truthy(content) \/ ~IsArr(content) THEN Str(<<>>)
    ELSE LET joined == JoinResults([i \in 1..Len(content.v) |-> parseBlockElement(content.v[i])], <<"\n">>)
         IN IF joined = Throw THEN Throw ELSE Str(Trim(joined.v))

----------------------------------------------------------------------------
(* the lookup tables and formatWorkItem *)

\* '待处理'
S_pending == <<"U+5F85", "U+5904", "U+7406">>
\* '进行中'
S_inProgress == <<"U+8FDB", "U+884C", "U+4E2D">>
\* '已完成'
S_done == <<"U+5DF2", "U+5B8C", "U+6210">>
\* '已关闭'
S_closed == <<"U+5DF2", "U+5173", "U+95ED">>
\* '需求'
S_requirement == <<"U+9700", "U+6C42">>
\* '用户故事'
S_userStory == <<"U+7528", "U+6237", "U+6545", "U+4E8B">>
\* '任务'
S_task == <<"U+4EFB", "U+52A1">>
\* '缺陷'
S_bug == <<"U+7F3A", "U+9677">>
\* '史诗'
S_epic == <<"U+53F2", "U+8BD7">>
\* '工作项'
S_workItem == <<"U+5DE5", "U+4F5C", "U+9879">>
\* '未知'
S_unknown == <<"U+672A", "U+77E5">>
\* '未设置'
S_notSet == <<"U+672A", "U+8BBE", "U+7F6E">>
\* '附件'
S_attachment == <<"U+9644", "U+4EF6">>
\* '紧急'
S_urgent == <<"U+7D27", "U+6025">>
\* '高'
S_high == <<"U+9AD8">>
\* '中'
S_medium == <<"U+4E2D">>
\* '低'
S_low == <<"U+4F4E">>
S_priorityId1 == <<"5", "c", "b", "9", "4", "6", "6", "a", "f", "d", "a", "1", "c", "e", "4", "c", "a", "0", "0", "9", "0", "0", "0", "1">>
S_priorityId2 == <<"5", "c", "b", "9", "4", "6", "6", "a", "f", "d", "a", "1", "c", "e", "4", "c", "a", "0", "0", "9", "0", "0", "0", "2">>
S_priorityId3 == <<"5", "c", "b", "9", "4", "6", "6", "a", "f", "d", "a", "1", "c", "e", "4", "c", "a", "0", "0", "9", "0", "0", "0", "3">>
S_priorityId4 == <<"5", "c", "b", "9", "4", "6", "6", "a", "f", "d", "a", "1", "c", "e", "4", "c", "a", "0", "0", "9", "0", "0", "0", "4">>
\* '编号'
L_id == <<"U+7F16", "U+53F7">>
\* '标题'
L_title == <<"U+6807", "U+9898">>
\* '类型'
L_type == <<"U+7C7B", "U+578B">>
\* '状态'
L_state == <<"U+72B6", "U+6001">>
\* '优先级'
L_priority == <<"U+4F18", "U+5148", "U+7EA7">>
\* '负责人'
L_assignee == <<"U+8D1F", "U+8D23", "U+4EBA">>
\* '创建人'
L_createdBy == <<"U+521B", "U+5EFA", "U+4EBA">>
\* '创建时间'
L_createdAt == <<"U+521B", "U+5EFA", "U+65F6", "U+95F4">>
\* '更新时间'
L_updatedAt == <<"U+66F4", "U+65B0", "U+65F6", "U+95F4">>
\* '描述'
L_description == <<"U+63CF", "U+8FF0">>
S_constructor == <<"c", "o", "n", "s", "t", "r", "u", "c", "t", "o", "r">>
S_toString == <<"t", "o", "S", "t", "r", "i", "n", "g">>
S_valueOf == <<"v", "a", "l", "u", "e", "O", "f">>
S_hasOwnProperty == <<"h", "a", "s", "O", "w", "n", "P", "r", "o", "p", "e", "r", "t", "y">>
S_isPrototypeOf == <<"i", "s", "P", "r", "o", "t", "o", "t", "y", "p", "e", "O", "f">>
S_propertyIsEnumerable == <<"p", "r", "o", "p", "e", "r", "t", "y", "I", "s", "E", "n", "u", "m", "e", "r", "a", "b", "l", "e">>
S_toLocaleString == <<"t", "o", "L", "o", "c", "a", "l", "e", "S", "t", "r", "i", "n", "g">>
S_proto == <<"_", "_", "p", "r", "o", "t", "o", "_", "_">>
S_Object == <<"O", "b", "j", "e", "c", "t">>

STATE_TYPE_MAP ==
    (<<"1">> :> S_pending) @@ (<<"2">> :> S_inProgress) @@ (<<"3">> :> S_done) @@ (<<"4">> :> S_closed)

\* a type table whose codes start at 1
TypeTableFromOne ==
    (<<"1">> :> S_requirement) @@ (<<"2">> :> S_userStory) @@ (<<"3">> :> S_task)
      @@ (<<"4">> :> S_bug) @@ (<<"5">> :> S_epic)

WORK_ITEM_TYPE_MAP ==
    (<<"2">> :> S_requirement) @@ (<<"3">> :> S_userStory) @@ (<<"4">> :> S_task)
      @@ (<<"5">> :> S_bug) @@ (<<"6">> :> S_epic)

PRIORITY_MAP ==
    (S_priorityId1 :> S_urgent) @@ (S_priorityId2 :> S_high)
      @@ (S_priorityId3 :> S_medium) @@ (S_priorityId4 :> S_low)

\* the methods every object literal inherits from Object.prototype
ObjectPrototypeMethods ==
    {S_constructor, S_toString, S_valueOf, S_hasOwnProperty, S_isPrototypeOf,
     S_propertyIsEnumerable, S_toLocaleString}

\* table[key] for an object literal: the key is converted to a string; a key the
\* literal does not hold is looked up in Object.prototype
Lookup(table, key) ==
    LET k == ToStr(key)
    IN IF k \in DOMAIN table THEN Str(table[k])
       ELSE IF k = S_constructor THEN Fun(S_Object)
       ELSE IF k \in ObjectPrototypeMethods THEN Fun(k)
       ELSE IF k = S_proto THEN Obj(<<>>)
       ELSE Undef

\* { label, value }
Field(label, value) == Obj([label |-> Str(label), value |-> value])

\* the callback of item.attachments.map
FormatAttachment(att) ==
    IF IsNullish(att) THEN Throw
    ELSE Obj([name |-> Or(Or(Get(att, "name"), Get(att, "filename")), Str(S_attachment)),
              url |-> Or(Or(Get(att, "url"), Get(att, "download_url")), Str(<<>>))])

\* the callback of item.comments.map
FormatComment(comment, tz) ==
    IF IsNullish(comment) THEN Throw
    ELSE LET content == parseCommentContent(Get(comment, "content"))
         IN IF content = Throw THEN Throw
            ELSE Obj([author |-> Or(Get(comment, "created_by_name"), Str(S_user)),
                      time |-> Str(formatTimestamp(Get(comment, "created_at"), tz)),
                      content |-> content])

\* (list || []).map(callback): a truthy value that is no array has no map method
MapOrEmpty(list, results) ==
    IF ~Truthy(list) THEN Arr(<<>>)
    ELSE IF ~IsArr(list) \/ MapThrows(results) THEN Throw
    ELSE Arr(results)

\* formatWorkItem(item) on a host whose clock is tz minutes east of UTC
formatWorkItem(item, tz) ==
    LET type == Get(item, "type")
        state == Get(item, "state")
        priority == Get(item, "priority")
        assignee == Get(item, "assignee")
        rawDescription == Get(item, "description")
        rawAttachments == Get(item, "attachments")
        rawComments == Get(item, "comments")
        id == Or(Or(Get(item, "whole_identifier"), Get(item, "identifier")),
                 Str(<<"#">> \o ToStr(Get(item, "identifier"))))
        typeName ==
            IF type.t = "number"
            THEN Or(Lookup(WORK_ITEM_TYPE_MAP, type), Str(S_workItem))
            ELSE Or(Or(OptGet(type, "display_name"), OptGet(type, "name")), Str(S_unknown))
        stateName ==
            Or(Or(Or(OptGet(state, "display_name"), OptGet(state, "name")),
                  Lookup(STATE_TYPE_MAP, Get(item, "state_type"))),
               Str(S_unknown))
        priorityName ==
            IF Truthy(priority)
            THEN Or(Or(Lookup(PRIORITY_MAP, priority), OptGet(priority, "name")), Str(S_notSet))
            ELSE Str(S_notSet)
        assigneeName ==
            IF Truthy(Get(item, "assignee_name")) THEN Get(item, "assignee_name")
            ELSE IF Truthy(assignee) /\ assignee.t \in {"object", "array"}
            THEN Or(Or(Get(assignee, "display_name"), Get(assignee, "name")), Str(S_notSet))
            ELSE Str(S_notSet)
        createdByName == Or(Get(item, "created_by_name"), Str(<<>>))
        \* stripHtml calls html.replace, which only a string has
        description ==
            IF ~Truthy(rawDescription) THEN Str(<<>>)
            ELSE IF IsStr(rawDescription) THEN Str(stripHtml(rawDescription.v))
            ELSE Throw
        attachments ==
            MapOrEmpty(rawAttachments,
                       IF IsArr(rawAttachments)
                       THEN [i \in 1..Len(rawAttachments.v) |-> FormatAttachment(rawAttachments.v[i])]
                       ELSE <<>>)
        comments ==
            MapOrEmpty(rawComments,
                       IF IsArr(rawComments)
                       THEN [i \in 1..Len(rawComments.v) |-> FormatComment(rawComments.v[i], tz)]
                       ELSE <<>>)
    IN IF description = Throw \/ attachments = Throw \/ comments = Throw THEN Throw
       ELSE Obj([id |-> Field(L_id, id),
                 title |-> Field(L_title, Or(Get(item, "title"), Str(<<>>))),
                 type |-> Field(L_type, typeName),
                 state |-> Field(L_state, stateName),
                 priority |-> Field(L_priority, priorityName),
                 assignee |-> Field(L_assignee, assigneeName),
                 createdBy |-> Field(L_createdBy, createdByName),
                 createdAt |-> Field(L_createdAt,
                                     IF Truthy(Get(item, "created_at"))
                                     THEN Str(formatTimestamp(Get(item, "created_at"), tz))
                                     ELSE Str(<<>>)),
                 updatedAt |-> Field(L_updatedAt,
                                     IF Truthy(Get(item, "updated_at"))
                                     THEN Str(formatTimestamp(Get(item, "updated_at"), tz))
                                     ELSE Str(<<>>)),
                 description |-> Field(L_description, description),
                 attachments |-> attachments,
                 comments |-> comments])

----------------------------------------------------------------------------
(* rich-text trees given to the renderer *)

\* children per node, in the sibling sequences
MaxKids == 2
\* nesting depth of the generated nodes
MaxDepth == 2

\* a kind the renderer does not know
S_div == <<"d", "i", "v">>

TextA == Obj([text |-> Str(<<"a">>)])
TextB == Obj([text |-> Str(<<"b">>)])
LinkA == Obj([type |-> Str(S_link), url |-> Str(<<"u">>), children |-> Arr(<<TextA>>)])
MentionN == Obj([type |-> Str(S_mention), display_name |-> Str(<<"n">>)])
CodeGo == Obj([type |-> Str(S_code), language |-> Str(<<"g", "o">>), content |-> Str(<<"x", ":", "=", "1">>)])
ItemA == Obj([type |-> Str(S_list_item), children |-> Arr(<<TextA>>)])
ItemLink == Obj([type |-> Str(S_list_item), children |-> Arr(<<LinkA>>)])
ListAL == Obj([type |-> Str(S_numbered_list), children |-> Arr(<<ItemA, ItemLink>>)])

\* the nodes the generated trees are built from: well-formed spans and blocks, and
\* malformed ones
Leaves ==
    { TextA, TextB, LinkA, MentionN, CodeGo, ListAL,
      Obj(<<>>),
      Obj([text |-> Num(5)]),
      Null,
      Str(<<"s">>),
      Obj([type |-> Str(S_link), url |-> Str(<<"u">>)]),
      Obj([type |-> Str(S_link), url |-> Str(<<"u">>), children |-> Arr(<<Null>>)]),
      Obj([type |-> Str(S_mention), text |-> Str(<<"m">>)]),
      Obj([type |-> Str(S_mention)]),
      Obj([type |-> Str(S_image), url |-> Str(<<"u">>)]),
      Obj([type |-> Str(S_image)]),
      Obj([type |-> Str(S_code)]),
      Obj([type |-> Str(S_paragraph)]),
      Obj([type |-> Str(S_div)]),
      Obj([type |-> Str(S_div), text |-> Str(<<"t">>)]),
      Obj([type |-> Str(S_div), content |-> Str(<<"c">>)]),
      Obj([type |-> Str(S_div), text |-> Str(<<"t">>), content |-> Str(<<"c">>)]),
      Obj([type |-> Str(S_div), children |-> Str(<<"x">>)]),
      Obj([type |-> Num(7), text |-> Str(<<"t">>)]) }

\* the nodes that appear side by side
Sibs == {TextA, CodeGo, ItemA, ItemLink}

SibSeqs == UNION {[1..k -> Sibs] : k \in 0..MaxKids}

ParentKinds == {S_paragraph, S_blockquote, S_bulleted_list, S_numbered_list, S_list_item, S_link, S_div}

Node(kind, kids) ==
    IF kind = S_link
    THEN Obj([type |-> Str(kind), url |-> Str(<<"u">>), children |-> Arr(kids)])
    ELSE Obj([type |-> Str(kind), children |-> Arr(kids)])

Nodes[d \in 0..MaxDepth] ==
    IF d = 0 THEN Leaves
    ELSE Nodes[d - 1] \cup {Node(k, kids) : k \in ParentKinds, kids \in {<<n>> : n \in Nodes[d - 1]} \cup SibSeqs}

\* the trees of less than the full depth
Below == Nodes[MaxDepth - 1]

\* the content field of a comment: a list of blocks, or something else
ContentsOf(nodes) ==
    {Arr(<<n>>) : n \in nodes} \cup {Arr(s) : s \in SibSeqs}
      \cup {Undef, Null, Str(<<"a">>), Obj(<<>>)}

Contents == ContentsOf(Below)

RenderFns == {"parseCommentContent", "parseBlockElement", "parseInlineElement"}

\* the argument a renderer is given to reach a tree: a content holds it as its one block
ArgFor(fn, node) == IF fn = "parseCommentContent" THEN Arr(<<node>>) ELSE node

----------------------------------------------------------------------------
(* the variables of each specification; a specification leaves the others' alone *)

rvars == <<rinput, rendered, rpc>>
wvars == <<wcontent, stack, wstate, wresult>>
svars == <<shtml, sonce, stwice, spc>>
fvars == <<fitem, fzone, fout, fdoc, fpc>>
tvars == <<tstamp, tzone, tsec, tms, tpc>>
pvars == <<phost, plog>>
cvars == <<tracker, asked, czone, cbare, chash, cpc>>
gvars == <<identifier, client, hostZone, result, response, pc>>
avars == <<credfile, now, loggedOut, alast, dpc>>
lvars == <<litems, ltype, lmembers, luser, lkept, lout, lpc>>
uvars == <<ustates, uname, ustate, uresult, usent, upc>>
vars == <<rvars, wvars, svars, fvars, tvars, pvars, cvars, gvars, avars, lvars, uvars>>

OutsideRender == <<wvars, svars, fvars, tvars, pvars, cvars, gvars, avars, lvars, uvars>>
OutsideWalk == <<rvars, svars, fvars, tvars, pvars, cvars, gvars, avars, lvars, uvars>>
OutsideStrip == <<rvars, wvars, fvars, tvars, pvars, cvars, gvars, avars, lvars, uvars>>
OutsideFormat == <<rvars, wvars, svars, tvars, pvars, cvars, gvars, avars, lvars, uvars>>
OutsideTime == <<rvars, wvars, svars, fvars, pvars, cvars, gvars, avars, lvars, uvars>>
OutsidePipeline == <<rvars, wvars, svars, fvars, tvars, cvars, gvars, avars, lvars, uvars>>
OutsideClient == <<rvars, wvars, svars, fvars, tvars, pvars, gvars, avars, lvars, uvars>>
OutsideTool == <<rvars, wvars, svars, fvars, tvars, pvars, cvars, avars, lvars, uvars>>
OutsideAuth == <<rvars, wvars, svars, fvars, tvars, pvars, cvars, gvars, lvars, uvars>>
OutsideRelease == <<rvars, wvars, svars, fvars, tvars, pvars, cvars, gvars, avars, uvars>>
OutsideUpdate == <<rvars, wvars, svars, fvars, tvars, pvars, cvars, gvars, avars, lvars>>

RenderIdle == rinput = NoValue /\ rendered = NoValue /\ rpc = "idle"
WalkIdle == wcontent = NoValue /\ stack = <<>> /\ wstate = "idle" /\ wresult = NoValue
StripIdle == shtml = NoValue /\ sonce = NoValue /\ stwice = NoValue /\ spc = "idle"
FormatIdle ==
    fitem = NoValue /\ fzone = 0 /\ fout = NoValue /\ fdoc = NoValue /\ fpc = "idle"
ClientIdle ==
    /\ tracker = NoValue /\ asked = <<>> /\ czone = 0
    /\ cbare = NoValue /\ chash = NoValue /\ cpc = "idle"
PipelineIdle == phost = 0 /\ plog = NoValue
TimeIdle == tstamp = NoValue /\ tzone = 0 /\ tsec = NoValue /\ tms = NoValue /\ tpc = "idle"
ToolIdle ==
    /\ identifier = <<>> /\ client = NoValue /\ hostZone = 0 /\ result = NoValue
    /\ response = NoValue /\ pc = "idle"
AuthIdle ==
    credfile = NoValue /\ now = 0 /\ loggedOut = FALSE /\ alast = NoValue /\ dpc = "idle"
ReleaseIdle ==
    /\ litems = <<>> /\ ltype = NoValue /\ lmembers = <<>> /\ luser = NoValue
    /\ lkept = NoValue /\ lout = NoValue /\ lpc = "idle"
UpdateIdle ==
    /\ ustates = <<>> /\ uname = <<>> /\ ustate = NoValue /\ uresult = NoValue
    /\ usent = <<>> /\ upc = "idle"

----------------------------------------------------------------------------
(* RenderSpec: one call of a renderer entry point on one input *)

RenderInit ==
    /\ \/ \E c \in Contents : rinput = [fn |-> "parseCommentContent", arg |-> c]
       \/ \E fn \in RenderFns \ {"parseCommentContent"}, n \in Below : rinput = [fn |-> fn, arg |-> n]
       \/ \E fn \in RenderFns, k \in ParentKinds, n \in Below :
             rinput = [fn |-> fn, arg |-> ArgFor(fn, Node(k, <<n>>))]
    /\ rendered = NoValue
    /\ rpc = "ready"
    /\ WalkIdle /\ StripIdle /\ FormatIdle /\ TimeIdle /\ PipelineIdle /\ ClientIdle /\ ToolIdle
    /\ AuthIdle /\ ReleaseIdle /\ UpdateIdle

CallParseCommentContent ==
    /\ rpc = "ready"
    /\ rinput.fn = "parseCommentContent"
    /\ rendered' = parseCommentContent(rinput.arg)
    /\ rpc' = "done"
    /\ UNCHANGED <<rinput, OutsideRender>>

CallParseBlockElement ==
    /\ rpc = "ready"
    /\ rinput.fn = "parseBlockElement"
    /\ rendered' = parseBlockElement(rinput.arg)
    /\ rpc' = "done"
    /\ UNCHANGED <<rinput, OutsideRender>>

CallParseInlineElement ==
    /\ rpc = "ready"
    /\ rinput.fn = "parseInlineElement"
    /\ rendered' = parseInlineElement(rinput.arg)
    /\ rpc' = "done"
    /\ UNCHANGED <<rinput, OutsideRender>>

RenderNext == CallParseCommentContent \/ CallParseBlockElement \/ CallParseInlineElement

RenderSpec == RenderInit /\ [][RenderNext]_vars

----------------------------------------------------------------------------
(* WalkSpec: the recursion of the renderer, one call or return per step *)

Call(fn, node) == [fn |-> fn, node |-> node]

\* a renderer that is called once on the children list, not on each child
MapCallsOnList(children, fn) ==
    IF Truthy(children) /\ IsArr(children) THEN <<Call(fn, children)>> ELSE <<>>

\* the calls children.map(child => fn(child)) makes, when children is an array
MapCalls(children, fn) ==
    IF Truthy(children) /\ IsArr(children)
    THEN [i \in 1..Len(children.v) |-> Call(fn, children.v[i])]
    ELSE <<>>

RECURSIVE ListCalls(_)
\* the calls of the list case: parseBlockElement on the children of each item in
\* turn, up to the first item whose own callback raises
ListCalls(items) ==
    IF items = <<>> \/ IsNullish(items[1]) THEN <<>>
    ELSE LET children == Get(items[1], "children")
         IN IF IsNullish(children) THEN ListCalls(Tail(items))
            ELSE IF ~IsArr(children) THEN <<>>
            ELSE MapCalls(children, "parseBlockElement") \o ListCalls(Tail(items))

\* the renderer calls that the body of fn(node) makes directly, in order
Callees(fn, node) ==
    IF fn = "parseCommentContent" THEN MapCalls(node, "parseBlockElement")
    ELSE IF IsNullish(node) \/ ~Truthy(Get(node, "type")) THEN <<>>
    ELSE LET type == Get(node, "type")
             children == Get(node, "children")
         IN IF fn = "parseInlineElement"
            THEN IF type \in {Str(S_link), Str(S_mention), Str(S_image)} THEN <<>>
                 ELSE MapCalls(children, "parseInlineElement")
            ELSE CASE type = Str(S_paragraph) -> MapCalls(children, "parseInlineElement")
                   [] type \in {Str(S_code), Str(S_image)} -> <<>>
                   [] type = Str(S_blockquote) -> MapCalls(children, "parseBlockElement")
                   [] type \in {Str(S_bulleted_list), Str(S_numbered_list)} ->
                        IF Truthy(children) /\ IsArr(children) THEN ListCalls(children.v) ELSE <<>>
                   [] type = Str(S_list_item) -> MapCalls(children, "parseBlockElement")
                   [] OTHER -> MapCalls(children, "parseInlineElement")

\* what the call fn(node) evaluates to
Result(fn, node) ==
    CASE fn = "parseCommentContent" -> parseCommentContent(node)
      [] fn = "parseBlockElement" -> parseBlockElement(node)
      [] fn = "parseInlineElement" -> parseInlineElement(node)

Top == stack[Len(stack)]

WalkInit ==
    /\ wcontent = NoValue
    /\ stack = <<>>
    /\ wstate = "start"
    /\ wresult = NoValue
    /\ RenderIdle /\ StripIdle /\ FormatIdle /\ TimeIdle /\ PipelineIdle /\ ClientIdle /\ ToolIdle
    /\ AuthIdle /\ ReleaseIdle /\ UpdateIdle

\* parseCommentContent is called on a content
WalkStart ==
    /\ wstate = "start"
    /\ wcontent' \in Contents
    /\ stack' = <<[fn |-> "parseCommentContent", node |-> wcontent', next |-> 1]>>
    /\ wstate' = "running"
    /\ UNCHANGED <<wresult, OutsideWalk>>

\* the body of the call on top makes its next renderer call
WalkCall ==
    /\ wstate = "running"
    /\ Top.next <= Len(Callees(Top.fn, Top.node))
    /\ LET c == Callees(Top.fn, Top.node)[Top.next]
       IN stack' = Append(stack, [fn |-> c.fn, node |-> c.node, next |-> 1])
    /\ UNCHANGED <<wcontent, wstate, wresult, OutsideWalk>>

\* the call on top has made all its calls and returns its value to its caller
WalkReturn ==
    /\ wstate = "running"
    /\ Top.next > Len(Callees(Top.fn, Top.node))
    /\ Result(Top.fn, Top.node) # Throw
    /\ IF Len(stack) = 1
       THEN /\ stack' = <<>>
            /\ wstate' = "returned"
            /\ wresult' = Result(Top.fn, Top.node)
       ELSE /\ stack' = [SubSeq(stack, 1, Len(stack) - 1) EXCEPT ![Len(stack) - 1].next = @ + 1]
            /\ UNCHANGED <<wstate, wresult>>
    /\ UNCHANGED <<wcontent, OutsideWalk>>

\* the body of the call on top raises; no caller catches, so the rendering ends
WalkRaise ==
    /\ wstate = "running"
    /\ Top.next > Len(Callees(Top.fn, Top.node))
    /\ Result(Top.fn, Top.node) = Throw
    /\ stack' = <<>>
    /\ wstate' = "threw"
    /\ wresult' = Throw
    /\ UNCHANGED <<wcontent, OutsideWalk>>

WalkNext == WalkStart \/ WalkCall \/ WalkReturn \/ WalkRaise

WalkSpec == WalkInit /\ [][WalkNext]_vars

----------------------------------------------------------------------------
(* StripSpec: stripHtml is applied to a string, then to its own output *)

MaxFrags == 3

S_ltTail == <<"l", "t", ";">>
S_brSlash == <<"<", "b", "r", " ", "/", ">">>
S_pCloseUpper == <<"<", "/", "P", ">">>
S_imgTag == <<"<", "i", "m", "g", " ", "s", "r", "c", "=", "\"", "u", "\"", ">">>

\* the pieces the HTML inputs are made of
Fragments ==
    {S_amp, S_lt, S_gt, S_nbsp, S_ltTail, <<"<">>, <<">">>, <<"a">>, <<"\n">>, <<" ">>,
     S_brSlash, S_pCloseUpper, S_imgTag}

RECURSIVE Flatten(_)
Flatten(frags) == IF frags = <<>> THEN <<>> ELSE Head(frags) \o Flatten(Tail(frags))

StripInit ==
    /\ \E k \in 0..MaxFrags : \E frags \in [1..k -> Fragments] : shtml = Flatten(frags)
    /\ sonce = NoValue
    /\ stwice = NoValue
    /\ spc = "ready"
    /\ RenderIdle /\ WalkIdle /\ FormatIdle /\ TimeIdle /\ PipelineIdle /\ ClientIdle /\ ToolIdle
    /\ AuthIdle /\ ReleaseIdle /\ UpdateIdle

\* stripHtml(html)
StripOnce ==
    /\ spc = "ready"
    /\ sonce' = stripHtml(shtml)
    /\ spc' = "once"
    /\ UNCHANGED <<shtml, stwice, OutsideStrip>>

\* stripHtml(stripHtml(html))
StripAgain ==
    /\ spc = "once"
    /\ stwice' = stripHtml(sonce)
    /\ spc' = "twice"
    /\ UNCHANGED <<shtml, sonce, OutsideStrip>>

StripNext == StripOnce \/ StripAgain

StripSpec == StripInit /\ [][StripNext]_vars

----------------------------------------------------------------------------
(* getWorkItemString *)

\* '### 附件'
S_attachmentsHeading == <<"#", "#", "#", " ", "U+9644", "U+4EF6">>
\* '### 评论 ('
S_commentsHeadingOpen == <<"#", "#", "#", " ", "U+8BC4", "U+8BBA", " ", "(">>

RECURSIVE JoinLines(_)
\* lines.join('\n') of an array of strings
JoinLines(lines) ==
    IF lines = <<>> THEN <<>>
    ELSE IF Len(lines) = 1 THEN lines[1]
    ELSE lines[1] \o <<"\n">> \o JoinLines(Tail(lines))

\* data.<k>.value and data.<k>.label
ValueOf(data, k) == Get(Get(data, k), "value")
LabelOf(data, k) == Get(Get(data, k), "label").v

\* `- **${label}**: ${value}`
FieldLine(data, k) ==
    <<"-", " ", "*", "*">> \o LabelOf(data, k) \o <<"*", "*", ":", " ">> \o ToStr(ValueOf(data, k))

\* a line pushed for a field whatever its value
FieldLineAlways(data, k) == <<FieldLine(data, k)>>

\* the line pushed for a field only when its value is truthy
OptionalLine(data, k) == IF Truthy(ValueOf(data, k)) THEN <<FieldLine(data, k)>> ELSE <<>>

\* a heading that carries the number of records processed before
HeadingLineCounted(data) ==
    <<"#", "#", " ">> \o NatToStr(Len(plog)) \o <<" ">> \o ToStr(ValueOf(data, "id")) \o <<" ", "-", " ">>
      \o ToStr(ValueOf(data, "title"))

\* `## ${id} - ${title}`
HeadingLine(data) ==
    <<"#", "#", " ">> \o ToStr(ValueOf(data, "id")) \o <<" ", "-", " ">> \o ToStr(ValueOf(data, "title"))

AttachmentLine(att) ==
    IF Truthy(Get(att, "url"))
    THEN <<"-", " ", "[">> \o ToStr(Get(att, "name")) \o <<"]", "(">> \o ToStr(Get(att, "url")) \o <<")">>
    ELSE <<"-", " ">> \o ToStr(Get(att, "name"))

RECURSIVE CommentLinesUnseparated(_, _)
\* comments pushed with no blank line after each
CommentLinesUnseparated(comments, index) ==
    IF index > Len(comments) THEN <<>>
    ELSE << <<"*", "*">> \o NumToStr(index) \o <<".", " ">> \o ToStr(Get(comments[index], "author"))
              \o <<"*", "*", " ", "(">> \o ToStr(Get(comments[index], "time")) \o <<")", ":">>,
            S_quotePrefix \o ToStr(Get(comments[index], "content")) >>
           \o CommentLinesUnseparated(comments, index + 1)

RECURSIVE CommentLines(_, _)
\* the three lines pushed for each comment from the index-th on
CommentLines(comments, index) ==
    IF index > Len(comments) THEN <<>>
    ELSE << <<"*", "*">> \o NumToStr(index) \o <<".", " ">> \o ToStr(Get(comments[index], "author"))
              \o <<"*", "*", " ", "(">> \o ToStr(Get(comments[index], "time")) \o <<")", ":">>,
            S_quotePrefix \o ToStr(Get(comments[index], "content")),
            <<>> >> \o CommentLines(comments, index + 1)

\* the lines of getWorkItemString(data)
WorkItemLines(data) ==
    LET attachments == Get(data, "attachments").v
        comments == Get(data, "comments").v
    IN <<HeadingLine(data), <<>>, FieldLine(data, "type"), FieldLine(data, "state"),
         FieldLine(data, "priority"), FieldLine(data, "assignee")>>
         \o OptionalLine(data, "createdBy")
         \o OptionalLine(data, "createdAt")
         \o OptionalLine(data, "updatedAt")
         \o (IF Truthy(ValueOf(data, "description"))
             THEN << <<>>, <<"#", "#", "#", " ">> \o LabelOf(data, "description"), <<>>,
                     ToStr(ValueOf(data, "description")) >>
             ELSE <<>>)
         \o (IF Len(attachments) > 0
             THEN << <<>>, S_attachmentsHeading, <<>> >>
                    \o [i \in 1..Len(attachments) |-> AttachmentLine(attachments[i])]
             ELSE <<>>)
         \o (IF Len(comments) > 0
             THEN << <<>>, S_commentsHeadingOpen \o NumToStr(Len(comments)) \o <<")">>, <<>> >>
                    \o CommentLines(comments, 1)
             ELSE <<>>)

getWorkItemString(data) == JoinLines(WorkItemLines(data))

----------------------------------------------------------------------------
(* getWorkItem *)

\* '未找到编号为 '
S_notFoundOpen == <<"U+672A", "U+627E", "U+5230", "U+7F16", "U+53F7", "U+4E3A", " ">>
\* ' 的工作项'
S_notFoundClose == <<" ", "U+7684", "U+5DE5", "U+4F5C", "U+9879">>
\* '🔒 单任务模式：处理 '
S_requiredOpen == <<"U+1F512", " ", "U+5355", "U+4EFB", "U+52A1", "U+6A21", "U+5F0F", "U+FF1A", "U+5904", "U+7406", " ">>
\* '，完成后立即询问 commit'
S_requiredClose == <<"U+FF0C", "U+5B8C", "U+6210", "U+540E", "U+7ACB", "U+5373", "U+8BE2", "U+95EE", " ", "c", "o", "m", "m", "i", "t">>
\* '**开始前确认**：AI 必须先输出 "'
S_confirmOpen == <<"*", "*", "U+5F00", "U+59CB", "U+524D", "U+786E", "U+8BA4", "*", "*", "U+FF1A", "A", "I", " ", "U+5FC5", "U+987B", "U+5148", "U+8F93", "U+51FA", " ", "\"">>
\* '- 建议 commit：'
S_suggestOpen == <<"-", " ", "U+5EFA", "U+8BAE", " ", "c", "o", "m", "m", "i", "t", "U+FF1A">>
S_fix == <<"f", "i", "x">>
S_feat == <<"f", "e", "a", "t">>
S_chore == <<"c", "h", "o", "r", "e">>
S_single_task == <<"s", "i", "n", "g", "l", "e", "_", "t", "a", "s", "k">>
S_forbidden1 == <<"g", "e", "t", "_", "o", "t", "h", "e", "r", "_", "w", "o", "r", "k", "_", "i", "t", "e", "m", "_", "b", "e", "f", "o", "r", "e", "_", "c", "o", "m", "m", "i", "t", "_", "d", "e", "c", "i", "s", "i", "o", "n">>
S_forbidden2 == <<"b", "a", "t", "c", "h", "_", "f", "e", "t", "c", "h", "_", "m", "u", "l", "t", "i", "p", "l", "e", "_", "w", "o", "r", "k", "_", "i", "t", "e", "m", "s", "_", "i", "n", "_", "p", "a", "r", "a", "l", "l", "e", "l">>
S_forbidden3 == <<"m", "o", "d", "i", "f", "y", "_", "m", "u", "l", "t", "i", "p", "l", "e", "_", "w", "o", "r", "k", "_", "i", "t", "e", "m", "s">>
S_use_suggested == <<"u", "s", "e", "_", "s", "u", "g", "g", "e", "s", "t", "e", "d">>
S_user_provided == <<"u", "s", "e", "r", "_", "p", "r", "o", "v", "i", "d", "e", "d">>
S_skip == <<"s", "k", "i", "p">>
S_announce == <<"a", "n", "n", "o", "u", "n", "c", "e", "_", "s", "i", "n", "g", "l", "e", "_", "t", "a", "s", "k", "_", "m", "o", "d", "e">>

\* the lines of bugAnalysisPrompt; a line of fixed text is kept as one symbol
\* that names the source line of its literal
BugAnalysisLines ==
    <<<<>>, <<"work-items.ts:384">>, <<>>, <<"work-items.ts:386">>, <<>>,
      <<"work-items.ts:388">>, <<"work-items.ts:389">>, <<"work-items.ts:390">>, <<>>,
      <<"work-items.ts:392">>, <<"work-items.ts:393">>, <<"work-items.ts:394">>,
      <<"work-items.ts:395">>, <<"work-items.ts:396">>, <<>>, <<"work-items.ts:398">>,
      <<"work-items.ts:399">>, <<"work-items.ts:400">>, <<>>, <<"work-items.ts:402">>,
      <<"work-items.ts:403">>, <<"work-items.ts:404">>, <<>>, <<"work-items.ts:406">>,
      <<"work-items.ts:407">>, <<"work-items.ts:408">>, <<"work-items.ts:409">>, <<>>,
      <<"work-items.ts:411">>, <<"work-items.ts:412">>, <<>>, <<"-", "-", "-">>, <<>>,
      <<"work-items.ts:416">>, <<>>, S_fence, <<"work-items.ts:419">>,
      <<"work-items.ts:420">>, <<"work-items.ts:421">>, <<"work-items.ts:422">>,
      <<"work-items.ts:423">>, <<"work-items.ts:424">>, <<"work-items.ts:425">>,
      <<"work-items.ts:426">>, S_fence, <<>>, <<"work-items.ts:429">>,
      <<"work-items.ts:430">>, <<"work-items.ts:431">>, <<"work-items.ts:432">>,
      <<"work-items.ts:433">>, <<>>>>

\* the table of commit types by type label
TypeMap ==
    (S_bug :> S_fix) @@ (S_requirement :> S_feat) @@ (S_userStory :> S_feat)
      @@ (S_task :> S_chore) @@ (S_epic :> S_feat)

\* typeMap[workItem.type.value] || 'chore'
SuggestedType(workItem) == Or(Lookup(TypeMap, ValueOf(workItem, "type")), Str(S_chore))

\* `#${workItem.id.value} ${suggestedType}: ${workItem.title.value}`
SuggestedMsg(workItem) ==
    <<"#">> \o ToStr(ValueOf(workItem, "id")) \o <<" ">> \o ToStr(SuggestedType(workItem))
      \o <<":", " ">> \o ToStr(ValueOf(workItem, "title"))

RequiredOutputNamingTitle(workItem) ==
    S_requiredOpen \o ToStr(ValueOf(workItem, "title")) \o S_requiredClose

\* the first line the caller has to output
RequiredFirstOutput(workItem) ==
    S_requiredOpen \o ToStr(ValueOf(workItem, "id")) \o S_requiredClose

ForbiddenActions == <<Str(S_forbidden1), Str(S_forbidden2), Str(S_forbidden3)>>

AiDirectives(workItem) ==
    Obj([mode |-> Str(S_single_task),
         work_item_id |-> ValueOf(workItem, "id"),
         stop_after_fix |-> Bool(TRUE),
         ask_commit_after_fix |-> Bool(TRUE),
         wait_user_reply_before_next_item |-> Bool(TRUE),
         forbidden_actions |-> Arr(ForbiddenActions),
         required_first_output |-> Str(RequiredFirstOutput(workItem)),
         commit |-> Obj([suggested_message |-> Str(SuggestedMsg(workItem)),
                         options |-> Arr(<<Str(S_use_suggested), Str(S_user_provided), Str(S_skip)>>)])])

IsBugOrTask(workItem) == ValueOf(workItem, "type") \in {Str(S_bug), Str(S_task)}

\* workItem.type.value === '缺陷'
IsBug(workItem) == ValueOf(workItem, "type") = Str(S_bug)

BugAnalysisPrompt(isBug) == IF isBug THEN JoinLines(BugAnalysisLines) ELSE <<>>

\* the four lines of aiPrompt before bugAnalysisPrompt, each followed by its newline
PromptHead ==
    JoinLines(<< <<"-", "-", "-">>, <<"work-items.ts:440">>, <<>>, <<"work-items.ts:442">>, <<>> >>)

\* the lines of aiPrompt after bugAnalysisPrompt
PromptTailLines(workItem) ==
    << <<"work-items.ts:444">>, <<"work-items.ts:445">>, <<"work-items.ts:446">>,
       <<"work-items.ts:447">>, <<"work-items.ts:448">>, <<>>,
       S_confirmOpen \o RequiredFirstOutput(workItem) \o <<"\"">>,
       <<>>, <<"work-items.ts:452">>, <<>>, <<"work-items.ts:454">>,
       S_suggestOpen \o SuggestedMsg(workItem),
       <<"-", "-", "-">>, <<>> >>

AiPrompt(workItem) ==
    PromptHead \o BugAnalysisPrompt(IsBug(workItem)) \o <<"\n">> \o JoinLines(PromptTailLines(workItem))

Failure(message) == Obj([success |-> Bool(FALSE), error |-> message])

\* the message of the TypeError the engine raises, kept as one symbol
S_typeErrorMessage == <<"TypeError.message">>

\* what pingcodeClient.getWorkItemWithDetails did: it raised an error, it found no
\* item, or it returned a raw record
ClientError(message) == [kind |-> "error", message |-> message]
ClientNone == [kind |-> "none"]
ClientItem(item) == [kind |-> "item", item |-> item]

\* what getWorkItem returns once formatWorkItem has returned workItem or raised
Respond(workItem) ==
    IF workItem = Throw THEN Failure(Str(S_typeErrorMessage))
    ELSE Obj([success |-> Bool(TRUE),
              data |-> Str(AiPrompt(workItem) \o getWorkItemString(workItem)),
              workItem |-> workItem,
              aiDirectives |-> AiDirectives(workItem),
              nextRequiredAction |->
                  Obj([type |-> Str(S_announce),
                       blocked_until_user_reply |-> Bool(FALSE),
                       required_output |-> Str(RequiredFirstOutput(workItem))])])

\* a getWorkItem that lets the client's errors pass as exceptions
getWorkItemRethrowing(id, outcome, tz) ==
    IF outcome.kind = "error" THEN Throw
    ELSE IF outcome.kind = "none"
    THEN Failure(Str(S_notFoundOpen \o id \o S_notFoundClose))
    ELSE Respond(formatWorkItem(outcome.item, tz))

\* getWorkItem(identifier), given the outcome of the client's call, on a host whose
\* clock is tz minutes east of UTC
getWorkItem(id, outcome, tz) ==
    IF outcome.kind = "error" THEN Failure(outcome.message)
    ELSE IF outcome.kind = "none"
    THEN Failure(Str(S_notFoundOpen \o id \o S_notFoundClose))
    ELSE Respond(formatWorkItem(outcome.item, tz))

\* '错误: '
S_errorPrefix == <<"U+9519", "U+8BEF", ":", " ">>
S_text == <<"t", "e", "x", "t">>

\* case 'get_work_item' of the server's CallTool handler, given the result of
\* getWorkItem
CallTool_get_work_item(res) ==
    IF ~Truthy(Get(res, "success"))
    THEN Obj([content |-> Arr(<<Obj([type |-> Str(S_text),
                                     text |-> Str(S_errorPrefix \o ToStr(Get(res, "error")))])>>),
              isError |-> Bool(TRUE)])
    ELSE Obj([content |-> Arr(<<Obj([type |-> Str(S_text),
                                     text |-> Get(res, "data"),
                                     data |-> Obj([work_item |-> Get(res, "workItem"),
                                                   ai_directives |-> Get(res, "aiDirectives"),
                                                   next_required_action |-> Get(res, "nextRequiredAction")])])>>)])

----------------------------------------------------------------------------
(* raw work-item records, as the tracker's API may return them *)

MaxOverrides == 1

S_LFY42 == <<"L", "F", "Y", "-", "4", "2">>
S_crashOnSave == <<"c", "r", "a", "s", "h", " ", "o", "n", " ", "s", "a", "v", "e">>
S_amy == <<"a", "m", "y">>
S_bob == <<"b", "o", "b">>
S_htmlDescription ==
    <<"<", "p", ">", "a", " ", "&", "a", "m", "p", ";", " ", "b", "<", "/", "p", ">", "<", "b", "r", ">", "c">>

\* a record with a numeric type, names already resolved, an attachment and a comment
BugItem ==
    [whole_identifier |-> Str(S_LFY42),
     identifier |-> Str(<<"4", "2">>),
     title |-> Str(S_crashOnSave),
     type |-> Num(5),
     state_type |-> Num(2),
     priority |-> Str(S_priorityId1),
     assignee |-> Str(<<"u", "1">>),
     assignee_name |-> Str(S_amy),
     created_by_name |-> Str(S_bob),
     created_at |-> Num(1700000000),
     updated_at |-> BigNum(1700000, 0),
     description |-> Str(S_htmlDescription),
     attachments |-> Arr(<<Obj([name |-> Str(<<"f">>), url |-> Str(<<"u">>)])>>),
     comments |-> Arr(<<Obj([created_by_name |-> Str(S_amy), created_at |-> Num(1700000000),
                             content |-> Arr(<<Node(S_paragraph, <<TextA, LinkA>>)>>)])>>)]

\* a record with embedded type, state, priority and assignee objects
TaskItem ==
    [identifier |-> Str(<<"7">>),
     title |-> Str(<<"t">>),
     type |-> Obj([name |-> Str(<<"t", "a", "s", "k">>), display_name |-> Str(S_task)]),
     state |-> Obj([name |-> Str(<<"o", "p", "e", "n">>)]),
     priority |-> Obj([name |-> Str(<<"P", "1">>)]),
     assignee |-> Obj([display_name |-> Str(S_bob)]),
     created_at |-> Str(<<"1", "7", "0", "0", "0", "0", "0", "0", "0", "0">>)]

\* a record with no field at all
EmptyItem == <<>>

BaseItems == {BugItem, TaskItem, EmptyItem}

ItemFields ==
    {"whole_identifier", "identifier", "title", "type", "state", "state_type", "priority",
     "assignee", "assignee_name", "created_by", "created_by_name", "created_at", "updated_at",
     "description", "attachments", "comments"}

\* the field is not in the record
Absent == [t |-> "absent"]

\* values any field may hold
CommonValues == {Absent, Null, Str(<<>>), Str(S_constructor), Num(7), Obj(<<>>)}

\* further values of a field
FieldValues(k) ==
    CASE k \in {"whole_identifier", "identifier"} -> {Str(S_LFY42), Num(0)}
      [] k = "title" -> {Str(S_crashOnSave), Str(JoinLines(BugAnalysisLines))}
      [] k = "type" ->
           {Num(2), Num(3), Num(4), Num(5), Num(6),
            Obj([display_name |-> Str(S_bug)]), Obj([name |-> Str(S_epic)]),
            Obj([display_name |-> Str(S_constructor)])}
      [] k = "state" -> {Obj([display_name |-> Str(S_done)]), Obj([name |-> Num(1)])}
      [] k = "state_type" -> {Num(1), Str(<<"3">>)}
      [] k = "priority" -> {Str(S_priorityId3), Str(S_proto), Obj([name |-> Str(<<"P", "2">>)])}
      [] k = "assignee" -> {Str(<<"u", "2">>), Obj([name |-> Str(S_amy)])}
      [] k = "created_by" ->
           {Str(<<"u", "2">>), Obj([name |-> Str(S_amy)]), Obj([display_name |-> Str(S_bob), name |-> Str(S_amy)])}
      [] k \in {"assignee_name", "created_by_name"} -> {Str(S_amy)}
      [] k \in {"created_at", "updated_at"} ->
           {Num(86400), BigNum(1000000, 1), Str(<<"a">>), Bool(TRUE)}
      [] k = "description" ->
           {Str(S_lt \o <<"b">> \o S_gt), Str(S_imgTag), Arr(<<>>), Str(S_attachmentsHeading)}
      [] k = "attachments" ->
           {Arr(<<>>), Arr(<<Null>>), Arr(<<Str(<<"x">>)>>),
            Arr(<<Obj([filename |-> Str(<<"f">>), download_url |-> Str(<<"d">>)]),
                  Obj([name |-> Num(1)])>>)}
      [] k = "comments" ->
           {Arr(<<>>), Arr(<<Null>>), Arr(<<Obj(<<>>)>>),
            Arr(<<Obj([content |-> Arr(<<Null>>)])>>),
            Arr(<<Obj([created_by_name |-> Str(S_amy), created_at |-> Num(1700000000),
                       content |-> Arr(<<Node(S_paragraph, <<TextA, MentionN>>)>>)]),
                  Obj([created_by_name |-> Str(S_bob), created_at |-> BigNum(1700000, 60000),
                       content |-> Arr(<<CodeGo, ListAL>>)])>>),
            Arr(<<Obj([content |-> Arr(<<ListAL>>), created_at |-> Str(<<"a">>)]),
                  Obj([content |-> Str(<<"c">>), created_by_name |-> Num(3)])>>)}

\* one field of a record set to a value, or removed
Overrides == {[field |-> k, value |-> v] : k \in ItemFields, v \in CommonValues} \cup
             UNION {{[field |-> k, value |-> v] : v \in FieldValues(k)} : k \in ItemFields}

Override(fields, o) ==
    [k \in (IF o.value = Absent THEN DOMAIN fields \ {o.field} ELSE DOMAIN fields \cup {o.field})
       |-> IF k = o.field THEN o.value ELSE fields[k]]

RECURSIVE OverrideAll(_, _)
OverrideAll(fields, os) ==
    IF os = <<>> THEN fields ELSE OverrideAll(Override(fields, Head(os)), Tail(os))

\* the raw record made from a base record by a sequence of overrides
RawItem(base, os) == Obj(OverrideAll(base, os))

\* minutes east of UTC of the host's clock
HostZones == {0, 480}

----------------------------------------------------------------------------
(* FormatSpec: formatWorkItem is called on one raw record, and getWorkItemString on *)
(* the data it returns                                                            *)

FormatInit ==
    /\ \E base \in BaseItems, k \in 0..MaxOverrides :
         \E os \in [1..k -> Overrides] : fitem = RawItem(base, os)
    /\ fzone \in HostZones
    /\ fout = NoValue
    /\ fdoc = NoValue
    /\ fpc = "ready"
    /\ RenderIdle /\ WalkIdle /\ StripIdle /\ TimeIdle /\ PipelineIdle /\ ClientIdle /\ ToolIdle
    /\ AuthIdle /\ ReleaseIdle /\ UpdateIdle

CallFormatWorkItem ==
    /\ fpc = "ready"
    /\ fout' = formatWorkItem(fitem, fzone)
    /\ fpc' = "done"
    /\ UNCHANGED <<fitem, fzone, fdoc, OutsideFormat>>

\* getWorkItemString(data), once formatWorkItem has returned data
CallGetWorkItemString ==
    /\ fpc = "done"
    /\ fout # Throw
    /\ fdoc' = Str(getWorkItemString(fout))
    /\ fpc' = "written"
    /\ UNCHANGED <<fitem, fzone, fout, OutsideFormat>>

FormatNext == CallFormatWorkItem \/ CallGetWorkItemString

FormatSpec == FormatInit /\ [][FormatNext]_vars

----------------------------------------------------------------------------
(* TimeSpec: formatTimestamp is applied to a timestamp, then to 1000 times it *)

\* timestamps are drawn up to MaxTick above each of the TimeMillions
MaxTick == 2

\* multiples of 10^6 around which timestamps are drawn: the start of the epoch, dates
\* in seconds before and after 10^9, and dates in milliseconds before and after 10^12
TimeMillions == {0, 86, 999, 1000, 1700, 999999, 1000000, 1700000}

\* ts * 1000
Times1000(ts) ==
    BigNum(ts.v[1] * 1000 + (ts.v[2] * 1000) \div 1000000, (ts.v[2] * 1000) % 1000000)

TimeInit ==
    /\ \/ tstamp \in {Undef, Null}
       \/ \E q \in TimeMillions, r \in (0..MaxTick) \cup {999999} : tstamp = BigNum(q, r)
    /\ tzone \in HostZones
    /\ tsec = NoValue
    /\ tms = NoValue
    /\ tpc = "ready"
    /\ RenderIdle /\ WalkIdle /\ StripIdle /\ FormatIdle /\ PipelineIdle /\ ClientIdle /\ ToolIdle
    /\ AuthIdle /\ ReleaseIdle /\ UpdateIdle

\* formatTimestamp(ts)
FormatAsGiven ==
    /\ tpc = "ready"
    /\ tsec' = Str(formatTimestamp(tstamp, tzone))
    /\ tpc' = "given"
    /\ UNCHANGED <<tstamp, tzone, tms, OutsideTime>>

\* formatTimestamp(ts * 1000), for a ts that is a number
FormatTimes1000 ==
    /\ tpc = "given"
    /\ tstamp.t = "number"
    /\ tms' = Str(formatTimestamp(Times1000(tstamp), tzone))
    /\ tpc' = "both"
    /\ UNCHANGED <<tstamp, tzone, tsec, OutsideTime>>

TimeNext == FormatAsGiven \/ FormatTimes1000

TimeSpec == TimeInit /\ [][TimeNext]_vars

----------------------------------------------------------------------------
(* PipelineSpec: one process puts records through formatWorkItem,               *)
(* getWorkItemString and the construction of the directives, one after another; *)
(* the lookup tables are constants of the module and the host's time zone is    *)
(* fixed for the life of the process                                            *)

\* records put through the pipeline by one process
MaxRuns == 3

\* the records processed: the base records, a record with the identifier of another
\* and a different title, and a record on which formatWorkItem raises
PipelineRecords ==
    {Obj(BugItem), Obj(TaskItem), Obj(EmptyItem),
     RawItem(BugItem, <<[field |-> "title", value |-> Str(<<"t">>)]>>),
     RawItem(TaskItem, <<[field |-> "comments", value |-> Arr(<<Null>>)]>>)}

\* what the pipeline makes of a raw record: the WorkItemData, the markdown and the
\* directives, or the exception
Processed(item, workItem) ==
    IF workItem = Throw THEN [item |-> item, raised |-> TRUE]
    ELSE [item |-> item,
          raised |-> FALSE,
          workItem |-> workItem,
          markdown |-> getWorkItemString(workItem),
          directives |-> AiDirectives(workItem)]

PipelineInit ==
    /\ phost \in HostZones
    /\ plog = <<>>
    /\ RenderIdle /\ WalkIdle /\ StripIdle /\ FormatIdle /\ TimeIdle /\ ClientIdle /\ ToolIdle
    /\ AuthIdle /\ ReleaseIdle /\ UpdateIdle

\* the process formats one more record; it writes to nothing that outlives the call
ProcessRecord ==
    /\ Len(plog) < MaxRuns
    /\ \E item \in PipelineRecords :
          plog' = Append(plog, Processed(item, formatWorkItem(item, phost)))
    /\ UNCHANGED <<phost, OutsidePipeline>>

PipelineNext == ProcessRecord

PipelineSpec == PipelineInit /\ [][PipelineNext]_vars

----------------------------------------------------------------------------
(* the client: PingCodeClient.getWorkItem and getWorkItemWithDetails against a *)
(* tracker that holds work items by identifier and members by project          *)

S_LFY == <<"L", "F", "Y">>
S_OPS == <<"O", "P", "S">>
S_OPS3 == <<"O", "P", "S", "-", "3">>
S_u1 == <<"u", "1">>
S_u2 == <<"u", "2">>

\* the error of getAuthHeaders and the error raised on status 401, each message kept
\* as one symbol that names the source line of its literal
S_notLoggedIn == <<"pingcode-client.ts:41">>
S_loginExpired == <<"pingcode-client.ts:72">>

\* identifier.replace(/^#/, '').trim()
CleanId(id) == Trim(IF id # <<>> /\ id[1] = "#" THEN Tail(id) ELSE id)

\* identifier.includes('-') ? identifier.split('-')[0] : 'LFY'
ProjectIdentifier(id) ==
    IF \E i \in DOMAIN id : id[i] = "-" THEN Split(id, "-")[1] ELSE S_LFY

\* getProjectMembers(projectIdentifier): the members of the project that has this
\* identifier, as a map from uid to display name; empty when getProjectId finds no
\* such project or a request fails; the call raises when getAuthHeaders finds no
\* valid credentials
getProjectMembers(trk, projectIdentifier) ==
    IF trk.session = "none" THEN [raised |-> TRUE]
    ELSE [raised |-> FALSE,
          map |-> IF trk.session = "valid" /\ projectIdentifier \in DOMAIN trk.members
                  THEN trk.members[projectIdentifier]
                  ELSE <<>>]

\* members.get(uid) || null
MemberName(members, uid) ==
    IF uid.v \in DOMAIN members /\ members[uid.v] # <<>> THEN Str(members[uid.v]) ELSE Null

\* the fields of the item with field k set to members.get(item[from]) || null, when
\* item[from] is a non-empty string
FillName(fields, members, from, k) ==
    IF from \in DOMAIN fields /\ IsStr(fields[from]) /\ Truthy(fields[from])
    THEN [f \in DOMAIN fields \cup {k} |-> IF f = k THEN MemberName(members, fields[from]) ELSE fields[f]]
    ELSE fields

\* the callback of item.comments.forEach
FillComment(comment, members) ==
    IF IsNullish(comment) THEN Throw
    ELSE IF comment.t = "object" THEN Obj(FillName(comment.v, members, "created_by", "created_by_name"))
    ELSE comment

\* the fields of the item with the author of each comment filled in
FillComments(fields, members) ==
    IF "comments" \in DOMAIN fields /\ IsArr(fields.comments)
    THEN [fields EXCEPT !.comments =
             Arr([i \in 1..Len(fields.comments.v) |-> FillComment(fields.comments.v[i], members)])]
    ELSE fields

\* PingCodeClient.getWorkItem(identifier): raises without credentials and on status
\* 401, gives null when the tracker has no item of that identifier
ClientGetWorkItem(trk, id) ==
    IF trk.session = "none" THEN ClientError(Str(S_notLoggedIn))
    ELSE IF trk.session = "expired" THEN ClientError(Str(S_loginExpired))
    ELSE IF CleanId(id) \in DOMAIN trk.items THEN ClientItem(Obj(trk.items[CleanId(id)]))
    ELSE ClientNone

\* getWorkItemWithDetails once getWorkItem has returned the item found and
\* getProjectMembers has returned a member map or raised; the descriptions of the
\* tracker's items hold no image of the file store, so processDescriptionImages
\* returns them as they are
ResolveNames(found, lookup) ==
    LET members == lookup.map
        named == FillName(FillName(found.item.v, members, "assignee", "assignee_name"),
                          members, "created_by", "created_by_name")
        filled == FillComments(named, members)
    IN IF lookup.raised THEN ClientError(Str(S_notLoggedIn))
       ELSE IF "comments" \in DOMAIN filled /\ IsArr(filled.comments) /\ MapThrows(filled.comments.v)
       THEN ClientError(Str(S_typeErrorMessage))
       ELSE ClientItem(Obj(filled))

\* PingCodeClient.getWorkItemWithDetails(identifier)
getWorkItemWithDetails(trk, id) ==
    LET found == ClientGetWorkItem(trk, id)
    IN IF found.kind # "item" THEN found
       ELSE ResolveNames(found, getProjectMembers(trk, ProjectIdentifier(id)))

----------------------------------------------------------------------------
(* ClientSpec: the tool is called with an identifier X and with "#" + X, against *)
(* the same tracker                                                              *)

\* a bug of project LFY, with assignee, creator and comment author held as uids
TrackedBug ==
    [_id |-> Str(<<"i", "1">>),
     whole_identifier |-> Str(S_LFY42),
     identifier |-> Str(<<"4", "2">>),
     title |-> Str(S_crashOnSave),
     type |-> Num(5),
     state_type |-> Num(2),
     priority |-> Str(S_priorityId1),
     assignee |-> Str(S_u1),
     created_by |-> Str(S_u2),
     created_at |-> Num(1700000000),
     description |-> Str(S_htmlDescription),
     comments |-> Arr(<<Obj([created_by |-> Str(S_u1), created_at |-> Num(1700000000),
                             content |-> Arr(<<Node(S_paragraph, <<TextA>>)>>)])>>)]

\* a task known by its number alone, with an embedded assignee
TrackedTask ==
    [_id |-> Str(<<"i", "2">>),
     identifier |-> Str(<<"7">>),
     title |-> Str(<<"t">>),
     type |-> Obj([display_name |-> Str(S_task)]),
     assignee |-> Obj([display_name |-> Str(S_bob)]),
     created_by |-> Str(S_u1)]

\* an item of project OPS whose creator is no member
TrackedOps ==
    [_id |-> Str(<<"i", "3">>),
     whole_identifier |-> Str(S_OPS3),
     title |-> Str(<<"o">>),
     type |-> Num(4),
     assignee |-> Str(S_u2),
     created_by |-> Str(<<"u", "9">>)]

TrackedItems == (S_LFY42 :> TrackedBug) @@ (<<"7">> :> TrackedTask) @@ (S_OPS3 :> TrackedOps)

\* the members the tracker lists per project: all of them, or none
MemberLists ==
    { (S_LFY :> ((S_u1 :> S_amy) @@ (S_u2 :> S_bob))) @@ (S_OPS :> (S_u2 :> S_bob)),
      (S_LFY :> <<>>) @@ (S_OPS :> <<>>) }

Sessions == {"valid", "none", "expired"}

ClientInit ==
    /\ \E present \in SUBSET DOMAIN TrackedItems, m \in MemberLists, session \in Sessions :
          tracker = [session |-> session,
                     items |-> [id \in present |-> TrackedItems[id]],
                     members |-> m]
    /\ asked \in DOMAIN TrackedItems
    /\ czone \in HostZones
    /\ cbare = NoValue
    /\ chash = NoValue
    /\ cpc = "ready"
    /\ RenderIdle /\ WalkIdle /\ StripIdle /\ FormatIdle /\ TimeIdle /\ PipelineIdle /\ ToolIdle
    /\ AuthIdle /\ ReleaseIdle /\ UpdateIdle

\* getWorkItem(X)
CallWithBareIdentifier ==
    /\ cpc = "ready"
    /\ cbare' = getWorkItem(asked, getWorkItemWithDetails(tracker, asked), czone)
    /\ cpc' = "bare"
    /\ UNCHANGED <<tracker, asked, czone, chash, OutsideClient>>

\* getWorkItem("#" + X)
CallWithHashIdentifier ==
    /\ cpc = "bare"
    /\ chash' = getWorkItem(<<"#">> \o asked, getWorkItemWithDetails(tracker, <<"#">> \o asked), czone)
    /\ cpc' = "both"
    /\ UNCHANGED <<tracker, asked, czone, cbare, OutsideClient>>

ClientNext == CallWithBareIdentifier \/ CallWithHashIdentifier

ClientSpec == ClientInit /\ [][ClientNext]_vars

----------------------------------------------------------------------------
(* Spec: the getWorkItem tool is called once; what the client does is the     *)
(* environment's choice                                                       *)

Identifiers == {S_LFY42, <<"#", "7">>}

\* the errors the client raises, each message kept as one symbol that names the
\* source line of its literal
ClientErrors == {Str(<<"pingcode-client.ts:41">>), Str(<<"pingcode-client.ts:72">>)}

Init ==
    /\ identifier \in Identifiers
    /\ \/ client \in {ClientError(m) : m \in ClientErrors} \cup {ClientNone}
       \/ \E base \in BaseItems, k \in 0..MaxOverrides :
             \E os \in [1..k -> Overrides] : client = ClientItem(RawItem(base, os))
    /\ hostZone \in HostZones
    /\ result = NoValue
    /\ response = NoValue
    /\ pc = "ready"
    /\ RenderIdle /\ WalkIdle /\ StripIdle /\ FormatIdle /\ TimeIdle /\ PipelineIdle /\ ClientIdle
    /\ AuthIdle /\ ReleaseIdle /\ UpdateIdle

\* the get_work_item tool: getWorkItem(identifier), and the handler's response
GetWorkItem ==
    /\ pc = "ready"
    /\ result' = getWorkItem(identifier, client, hostZone)
    /\ response' = CallTool_get_work_item(result')
    /\ pc' = "done"
    /\ UNCHANGED <<identifier, client, hostZone, OutsideTool>>

Next == GetWorkItem

Spec == Init /\ [][Next]_vars

----------------------------------------------------------------------------
(* the credentials file: utils/credentials, and login, logout and checkAuth of *)
(* tools/login.ts                                                              *)

S_pingcodeCom == <<"p", "i", "n", "g", "c", "o", "d", "e", ".", "c", "o", "m">>
S_pingcode == <<"p", "i", "n", "g", "c", "o", "d", "e">>
S_session == <<"s", "e", "s", "s", "i", "o", "n">>
S_token == <<"t", "o", "k", "e", "n">>
S_sid == <<"s", "i", "d">>
S_accessToken == <<"a", "c", "c", "e", "s", "s", "_">> \o S_token
S_feishuCn == <<".", "f", "e", "i", "s", "h", "u", ".", "c", "n">>

\* the messages of login, logout and checkAuth, each kept as one symbol that names
\* the source line of its literal
S_loginTimeout == <<"login.ts:64">>
S_noLoginCookies == <<"login.ts:125">>
S_loginSaved == <<"login.ts:151">>
S_loginFailed == <<"login.ts:156">>
S_loggedOut == <<"login.ts:171">>
S_notAuthenticated == <<"login.ts:189">>
S_authenticated == <<"login.ts:199">>
\* new Date(expires_at).toLocaleString('zh-CN'), and the literal shown without expires_at
S_expiryShown == <<"login.ts:194">>
S_expiryUnknown == <<"login.ts:195">>

\* String.prototype.includes
Includes(s, sub) == \E i \in 0..(Len(s) - Len(sub)) : SubSeq(s, i + 1, i + Len(sub)) = sub

\* Date.now(), in milliseconds, on a host whose clock reads clock seconds
DateNow(clock) == clock * 1000

\* 7 * 24 * 60 * 60 * 1000
SevenDays == 604800000

\* what ~/.pingcode-mcp/credentials.json holds: nothing (no such file), the JSON
\* of a Credentials object, or the remains of a write that failed part-way
FileAbsent == [kind |-> "absent"]
FileTorn == [kind |-> "torn"]
FileOf(credentials) == [kind |-> "json", credentials |-> credentials]

\* how a call into the file system ends: it is carried out, it is refused with the
\* file left as it was, or (a write only) it fails after the file was truncated
FsOutcomes == {"ok", "refused", "torn"}

\* saveCredentials(credentials): the file afterwards; the call raises unless fs = "ok"
saveCredentials(file, credentials, fs) ==
    CASE fs = "ok" -> FileOf(credentials)
      [] fs = "refused" -> file
      [] fs = "torn" -> FileTorn

\* loadCredentials(): null when there is no file or its content does not parse
loadCredentials(file) == IF file.kind = "json" THEN file.credentials ELSE Null

\* clearCredentials(): the file afterwards; an error of unlinkSync is ignored
clearCredentials(file, fs) == IF file.kind # "absent" /\ fs = "ok" THEN FileAbsent ELSE file

\* c.name.includes('pingcode') || c.name.includes('session') || c.name.includes('token')
IsKeyCookie(c) ==
    Includes(c.name, S_pingcode) \/ Includes(c.name, S_session) \/ Includes(c.name, S_token)

\* an isCredentialsValid that does not look at expires_at
isCredentialsValidIgnoringExpiry(credentials, clock) ==
    IF credentials = Null THEN FALSE
    ELSE IF credentials.cookies = <<>> THEN FALSE
    ELSE \E i \in DOMAIN credentials.cookies : IsKeyCookie(credentials.cookies[i])

\* isCredentialsValid(credentials) at the time the clock reads clock
isCredentialsValid(credentials, clock) ==
    IF credentials = Null THEN FALSE
    ELSE IF credentials.cookies = <<>> THEN FALSE
    ELSE IF ~ \E i \in DOMAIN credentials.cookies : IsKeyCookie(credentials.cookies[i]) THEN FALSE
    ELSE IF credentials.expires_at # 0 /\ DateNow(clock) > credentials.expires_at THEN FALSE
    ELSE TRUE

\* cookiesToHeader(cookies)
cookiesToHeader(cookies) ==
    Join([i \in DOMAIN cookies |-> Str(cookies[i].name \o <<"=">> \o cookies[i].value)], <<";", " ">>)

RECURSIVE EarliestExpiry(_, _)
\* pingcodeCookies.reduce(..., min): the earliest expiry among the cookies that
\* have one, in milliseconds, or min
EarliestExpiry(cookies, min) ==
    IF cookies = <<>> THEN min
    ELSE LET c == cookies[1]
             expMs == c.expires * 1000
         IN EarliestExpiry(Tail(cookies),
                           IF c.expires # 0 /\ c.expires > 0 /\ expMs < min THEN expMs ELSE min)

\* what the browser did during login(): it could not be driven (an exception),
\* the user did not reach the workspace in time, or the user landed there with
\* the cookies jar and the page showed the user info user
BrowserFailed == [kind |-> "failed"]
BrowserTimedOut == [kind |-> "timeout"]
BrowserLanded(jar, user) == [kind |-> "landed", jar |-> jar, user |-> user]

LoginResult(success, message, file, saved) ==
    [success |-> success, message |-> message, file |-> file, saved |-> saved]

\* login(): the result, the file afterwards, and whether saveCredentials was called
login(file, clock, browser, fs) ==
    IF browser.kind = "failed" THEN LoginResult(FALSE, S_loginFailed, file, FALSE)
    ELSE IF browser.kind = "timeout" THEN LoginResult(FALSE, S_loginTimeout, file, FALSE)
    ELSE LET pingcodeCookies == SelectSeq(browser.jar, LAMBDA c : Includes(c.domain, S_pingcodeCom))
             credentials == [cookies |-> pingcodeCookies,
                             domain |-> S_pingcodeCom,
                             saved_at |-> DateNow(clock),
                             expires_at |-> EarliestExpiry(pingcodeCookies, DateNow(clock) + SevenDays),
                             user |-> browser.user]
         IN IF pingcodeCookies = <<>> THEN LoginResult(FALSE, S_noLoginCookies, file, FALSE)
            ELSE IF fs = "ok"
            THEN LoginResult(TRUE, S_loginSaved, saveCredentials(file, credentials, fs), TRUE)
            ELSE LoginResult(FALSE, S_loginFailed, saveCredentials(file, credentials, fs), TRUE)

\* logout(): the result and the file afterwards
logout(file, fs) == [success |-> TRUE, message |-> S_loggedOut, file |-> clearCredentials(file, fs)]

\* checkAuth()
checkAuth(file, clock) ==
    LET credentials == loadCredentials(file)
    IN IF ~isCredentialsValid(credentials, clock)
       THEN [authenticated |-> FALSE, message |-> S_notAuthenticated]
       ELSE [authenticated |-> TRUE, message |-> S_authenticated,
             expiresAt |-> IF credentials.expires_at # 0 THEN S_expiryShown ELSE S_expiryUnknown]

----------------------------------------------------------------------------
(* the methods of PingCodeClient that talk to the tracker: the requests each *)
(* sends, in order, and how it ends, given the status the tracker answers    *)
(* each request with and the body of its 200 responses                       *)

\* the message of the error the HTTP library raises for a failed request, and of
\* the errors raised when no project or no work item is found
S_requestFailed == <<"AxiosError.message">>
S_projectNotFound == <<"pingcode-client.ts:116">>
S_workItemNotFound == <<"pingcode-client.ts:545">>

Statuses == {200, 401, 404}

Raised(message, sent) == [kind |-> "raise", message |-> message, sent |-> sent]
Returned(value, sent) == [kind |-> "return", value |-> value, sent |-> sent]

\* getAuthHeaders(): raises (Throw) when there are no valid credentials
getAuthHeaders(file, clock) ==
    LET credentials == loadCredentials(file)
    IN IF credentials = Null \/ ~isCredentialsValid(credentials, clock) THEN Throw
       ELSE Obj([Cookie |-> Str(cookiesToHeader(credentials.cookies))])

\* catch (error) { if (error.response?.status === 401) throw new Error(...); throw error; }
\* for the error of a request answered with status st
Rethrow(st, sent) ==
    IF st = 401 THEN Raised(S_loginExpired, sent) ELSE Raised(S_requestFailed, sent)

\* the same catch block for an error that another method of the client raised:
\* it has no response, so it is raised again as it is
Propagate(inner) == Raised(inner.message, inner.sent)

Client_getWorkItem(file, clock, st, body) ==
    IF getAuthHeaders(file, clock) = Throw THEN Raised(S_notLoggedIn, <<>>)
    ELSE LET sent == <<"GET /api/agile/work-items/{id}">>
         IN IF st = 200 THEN Returned(IF Truthy(Get(body, "_id")) THEN body ELSE Null, sent)
            ELSE IF st = 404 THEN Returned(Null, sent)
            ELSE Rethrow(st, sent)

Client_getProjectId(file, clock, st) ==
    IF getAuthHeaders(file, clock) = Throw THEN Raised(S_notLoggedIn, <<>>)
    ELSE LET sent == <<"GET /api/agile/projects/{identifier}">>
         IN IF st = 200 THEN Returned(Str(<<"p", "1">>), sent) ELSE Returned(Null, sent)

\* the requests of a method that first resolves the project and then sends request
ViaProject(file, clock, sts, request, body) ==
    LET project == Client_getProjectId(file, clock, sts[1])
        sent == project.sent \o <<request>>
    IN IF project.kind = "raise" THEN Propagate(project)
       ELSE IF project.value = Null THEN Raised(S_projectNotFound, project.sent)
       ELSE IF sts[2] = 200 THEN Returned(body, sent)
       ELSE Rethrow(sts[2], sent)

Client_getProjectReleases(file, clock, sts, body) ==
    IF getAuthHeaders(file, clock) = Throw THEN Raised(S_notLoggedIn, <<>>)
    ELSE ViaProject(file, clock, sts, "GET /api/agile/projects/{id}/release/versions", body)

Client_searchWorkItems(file, clock, st, body) ==
    IF getAuthHeaders(file, clock) = Throw THEN Raised(S_notLoggedIn, <<>>)
    ELSE LET sent == <<"GET /api/pjm/work-items/search">>
         IN IF st = 200 THEN Returned(body, sent) ELSE Rethrow(st, sent)

\* the member map is abstracted to the list of members the tracker answered with
Client_getProjectMembers(file, clock, sts, body) ==
    IF getAuthHeaders(file, clock) = Throw THEN Raised(S_notLoggedIn, <<>>)
    ELSE LET project == Client_getProjectId(file, clock, sts[1])
             sent == project.sent \o <<"GET /api/agile/projects/{id}/members">>
         IN IF project.kind = "raise" THEN Returned(Arr(<<>>), project.sent)
            ELSE IF project.value = Null THEN Returned(Arr(<<>>), project.sent)
            ELSE IF sts[2] = 200 THEN Returned(body, sent)
            ELSE Returned(Arr(<<>>), sent)

Client_getProjects(file, clock, st, body) ==
    IF getAuthHeaders(file, clock) = Throw THEN Raised(S_notLoggedIn, <<>>)
    ELSE LET sent == <<"GET /api/agile/pilot/entries">>
         IN IF st = 200 THEN Returned(body, sent) ELSE Rethrow(st, sent)

Client_getSelectableStates(file, clock, st, body) ==
    IF getAuthHeaders(file, clock) = Throw THEN Raised(S_notLoggedIn, <<>>)
    ELSE LET sent == <<"GET /api/agile/work-items/{id}/selectable-states">>
         IN IF st = 200 THEN Returned(body, sent) ELSE Rethrow(st, sent)

\* the request carries the state id it was given
Client_updateWorkItemState(file, clock, st, stateId) ==
    IF getAuthHeaders(file, clock) = Throw THEN Raised(S_notLoggedIn, <<>>)
    ELSE LET sent == <<"PUT /api/agile/work-items/{id}">>
         IN IF st = 200 THEN Returned(stateId, sent) ELSE Rethrow(st, sent)

Client_updateBugProperty(file, clock, sts, body) ==
    IF getAuthHeaders(file, clock) = Throw THEN Raised(S_notLoggedIn, <<>>)
    ELSE LET workItem == Client_getWorkItem(file, clock, sts[1], body)
             sent == workItem.sent \o <<"PUT /api/agile/work-items/{_id}/property">>
         IN IF workItem.kind = "raise" THEN Propagate(workItem)
            ELSE IF workItem.value = Null THEN Raised(S_workItemNotFound, workItem.sent)
            ELSE IF sts[2] = 200 THEN Returned(Bool(TRUE), sent)
            ELSE Rethrow(sts[2], sent)

Client_getImageToken(file, clock, st) ==
    IF getAuthHeaders(file, clock) = Throw THEN Raised(S_notLoggedIn, <<>>)
    ELSE LET sent == <<"GET /api/typhon/secret/file/public-image-token">>
         IN IF st = 200 THEN Returned(Str(<<"t", "k">>), sent) ELSE Returned(Null, sent)

----------------------------------------------------------------------------
(* release items: the item_type filter of PingCodeClient.getReleaseWorkItems *)
(* and the listing of the getReleaseItems tool                               *)

S_bugWord == <<"b", "u", "g">>
S_storyWord == <<"s", "t", "o", "r", "y">>
S_all == <<"a", "l", "l">>
\* '未分配'
S_unassigned == <<"U+672A", "U+5206", "U+914D">>
\* '(我)'
S_me == <<"(", "U+6211", ")">>
\* '其他'
S_others == <<"U+5176", "U+4ED6">>
\* '# 发布版本工作项列表' and '该发布版本没有关联的工作项', each kept as one symbol
S_releaseTitle == <<"work-items.ts:515">>
S_noReleaseItems == <<"work-items.ts:501">>

\* String.prototype.toLowerCase
toLowerCase(s) == [i \in DOMAIN s |-> Lower(s[i])]

\* item.type?.name?.toLowerCase(): Throw when name is neither absent nor a string
TypeNameLowered(item) ==
    LET name == OptGet(Get(item, "type"), "name")
    IN IF IsNullish(name) THEN Undef
       ELSE IF IsStr(name) THEN Str(toLowerCase(name.v))
       ELSE Throw

\* the callback of items.filter in getReleaseWorkItems
KeepsItem(item, itemType) ==
    LET typeNum == Get(item, "type")
        typeName == TypeNameLowered(item)
    IN IF itemType = Str(S_bugWord)
       THEN typeNum = Num(5) \/ typeName = Str(S_bugWord) \/ typeName = Str(S_bug)
       ELSE IF itemType = Str(S_storyWord)
       THEN \/ typeNum = Num(3) \/ typeName = Str(S_storyWord)
            \/ typeName = Str(S_requirement) \/ typeName = Str(S_userStory)
       ELSE TRUE

\* whether the callback of items.filter raises on one of the items
FilterRaises(items, itemType) ==
    /\ Truthy(itemType) /\ itemType # Str(S_all)
    /\ \E i \in DOMAIN items : TypeNameLowered(items[i]) = Throw

\* if (itemType && itemType !== 'all') items = items.filter(...)
FilterByType(items, itemType) ==
    IF Truthy(itemType) /\ itemType # Str(S_all)
    THEN SelectSeq(items, LAMBDA item : KeepsItem(item, itemType))
    ELSE items

\* getReleaseWorkItems(releaseId, projectIdentifier, itemType)
Client_getReleaseWorkItems(file, clock, sts, body, itemType) ==
    IF getAuthHeaders(file, clock) = Throw THEN Raised(S_notLoggedIn, <<>>)
    ELSE LET answer == ViaProject(file, clock, sts,
                                  "POST /api/agile/projects/{id}/release/work-item/related-work-items/content",
                                  body)
         IN IF answer.kind = "raise" THEN answer
            ELSE IF FilterRaises(answer.value.v, itemType)
            THEN Raised(S_typeErrorMessage, answer.sent)
            ELSE Returned(Arr(FilterByType(answer.value.v, itemType)), answer.sent)

\* getId(item)
ReleaseItemId(item) ==
    IF Truthy(Get(item, "whole_identifier")) THEN ToStr(Get(item, "whole_identifier"))
    ELSE <<"#">> \o ToStr(Get(item, "identifier"))

\* getState(item)
ReleaseItemState(item) ==
    LET state == Get(item, "state")
        named == Or(OptGet(state, "display_name"), OptGet(state, "name"))
    IN IF Truthy(named) THEN ToStr(named)
       ELSE ToStr(Or(Lookup(STATE_TYPE_MAP, Get(item, "state_type")), Str(S_unknown)))

\* getAssignee(item)
ReleaseItemAssignee(item, members, currentUserId) ==
    LET assignee == Get(item, "assignee")
        assigneeId == IF IsStr(assignee) THEN assignee
                      ELSE Or(OptGet(assignee, "_id"), OptGet(assignee, "id"))
        name == IF IsStr(assigneeId) THEN ToStr(Or(MemberName(members, assigneeId), Str(S_unknown)))
                ELSE S_unknown
    IN IF ~Truthy(assigneeId) THEN S_unassigned
       ELSE IF assigneeId = currentUserId THEN name \o S_me
       ELSE name

\* formatItem(item)
ReleaseItemLine(item, members, currentUserId) ==
    <<"-", " ", "*", "*">> \o ReleaseItemId(item) \o <<"*", "*", " ">> \o ToStr(Get(item, "title"))
      \o <<" ", "|", " ">> \o ReleaseItemState(item)
      \o <<" ", "|", " ">> \o ReleaseItemAssignee(item, members, currentUserId)

\* the items the listing puts under each of its headings
ReleaseBugs(items) == SelectSeq(items, LAMBDA i : Get(i, "type") = Num(5))
ReleaseStories(items) == SelectSeq(items, LAMBDA i : Get(i, "type") \in {Num(3), Num(2)})
ReleaseOthers(items) == SelectSeq(items, LAMBDA i : Get(i, "type") \notin {Num(5), Num(3), Num(2)})

\* the lines of one group: an empty line, the heading with the count, an empty
\* line and one line per item; nothing for an empty group
ReleaseGroup(heading, group, members, currentUserId) ==
    IF group = <<>> THEN <<>>
    ELSE << <<>>, <<"#", "#", " ">> \o heading \o <<" ", "(">> \o NatToStr(Len(group)) \o <<")">>, <<>> >>
           \o [i \in DOMAIN group |-> ReleaseItemLine(group[i], members, currentUserId)]

\* getReleaseItems(releaseId, projectId, itemType), given what getReleaseWorkItems
\* did, the member map of the project and the id of the current user
getReleaseItems(outcome, members, currentUserId) ==
    IF outcome.kind = "raise" THEN Failure(Str(outcome.message))
    ELSE LET items == outcome.value.v
         IN IF items = <<>> THEN Obj([success |-> Bool(TRUE), data |-> Str(S_noReleaseItems)])
            ELSE Obj([success |-> Bool(TRUE),
                      data |-> Str(JoinLines(
                          << S_releaseTitle, <<>>,
                             <<"U+5171", " ">> \o NatToStr(Len(items)) \o <<" ", "U+9879">> >>
                            \o ReleaseGroup(S_bug, ReleaseBugs(items), members, currentUserId)
                            \o ReleaseGroup(S_requirement, ReleaseStories(items), members, currentUserId)
                            \o ReleaseGroup(S_others, ReleaseOthers(items), members, currentUserId)))])

----------------------------------------------------------------------------
(* the updateWorkItemState tool *)

\* `工作项 ${workItemId} 没有可用的状态选项`
S_noStatesOpen == <<"U+5DE5", "U+4F5C", "U+9879", " ">>
S_noStatesClose == <<" ", "work-items.ts:722">>
\* `未找到名为 "${stateName}" 的状态。可用状态: ${availableStates}`
S_noMatchOpen == <<"work-items.ts:738", "\"">>
S_noMatchMid == <<"\"", " ", "work-items.ts:738", ":", " ">>
\* `✅ 工作项 ${workItemId} 状态已更新为 "${...}"`
S_updatedOpen == <<"U+2705", " ", "U+5DE5", "U+4F5C", "U+9879", " ">>
S_updatedMid == <<" ", "work-items.ts:747", " ", "\"">>
\* '、'
S_listComma == <<"U+3001">>

\* the callback of states.find, for states whose names are strings or absent
MatchesState(s, stateName) ==
    \/ Get(s, "name") = Str(stateName)
    \/ Get(s, "display_name") = Str(stateName)
    \/ IsStr(Get(s, "name")) /\ Includes(Get(s, "name").v, stateName)
    \/ IsStr(Get(s, "display_name")) /\ Includes(Get(s, "display_name").v, stateName)

\* a lookup that settles for the first state when none matches
FindStateOrFirst(states, stateName) ==
    IF \E i \in DOMAIN states : MatchesState(states[i], stateName)
    THEN states[CHOOSE i \in DOMAIN states :
                    /\ MatchesState(states[i], stateName)
                    /\ \A j \in 1..(i - 1) : ~MatchesState(states[j], stateName)]
    ELSE IF states # <<>> THEN states[1]
    ELSE Undef

\* states.find(...): the first state the callback accepts, or undefined
FindState(states, stateName) ==
    IF \E i \in DOMAIN states : MatchesState(states[i], stateName)
    THEN states[CHOOSE i \in DOMAIN states :
                    /\ MatchesState(states[i], stateName)
                    /\ \A j \in 1..(i - 1) : ~MatchesState(states[j], stateName)]
    ELSE Undef

\* s.display_name || s.name
StateLabel(s) == Or(Get(s, "display_name"), Get(s, "name"))

\* states.map((s) => s.display_name || s.name).join('、')
AvailableStates(states) == Join([i \in DOMAIN states |-> StateLabel(states[i])], S_listComma)

\* updateWorkItemState(workItemId, stateName), given what getSelectableStates did
\* and the status the tracker answers the update with: the result, and the state
\* ids of the update requests sent
updateWorkItemState(workItemId, stateName, states, file, clock, st) ==
    IF states.kind = "raise" THEN [result |-> Failure(Str(states.message)), sent |-> <<>>]
    ELSE LET targetState == FindState(states.value.v, stateName)
             update == Client_updateWorkItemState(file, clock, st, Get(targetState, "_id"))
         IN IF states.value.v = <<>>
            THEN [result |-> Failure(Str(S_noStatesOpen \o workItemId \o S_noStatesClose)),
                  sent |-> <<>>]
            ELSE IF ~Truthy(targetState)
            THEN [result |-> Failure(Str(S_noMatchOpen \o stateName \o S_noMatchMid
                                           \o AvailableStates(states.value.v))),
                  sent |-> <<>>]
            ELSE IF update.kind = "raise"
            THEN [result |-> Failure(Str(update.message)),
                  sent |-> IF update.sent = <<>> THEN <<>> ELSE <<Get(targetState, "_id")>>]
            ELSE [result |-> Obj([success |-> Bool(TRUE),
                                  data |-> Str(S_updatedOpen \o workItemId \o S_updatedMid
                                                 \o ToStr(StateLabel(targetState)) \o <<"\"">>)]),
                  sent |-> <<Get(targetState, "_id")>>]

----------------------------------------------------------------------------
(* the tools backed by the tracker's API, as the server dispatches them *)

\* the listings of searchWorkItems, listReleases and listProjects and their
\* messages for an empty answer, each kept as one symbol
S_searchListing == <<"work-items.ts:605">>
S_searchEmpty == <<"work-items.ts:584">>
S_releasesListing == <<"work-items.ts:649">>
S_releasesEmpty == <<"work-items.ts:631">>
S_projectsListing == <<"work-items.ts:692">>
S_projectsEmpty == <<"work-items.ts:673">>
S_doneWord == <<"d", "o", "n", "e">>

\* searchWorkItems, listReleases and listProjects, given what the client's method did
ListingTool(outcome, empty, listing) ==
    IF outcome.kind = "raise" THEN Failure(Str(outcome.message))
    ELSE IF outcome.value.v = <<>> THEN Obj([success |-> Bool(TRUE), data |-> Str(empty)])
    ELSE Obj([success |-> Bool(TRUE), data |-> Str(listing)])

ApiTools ==
    {"get_work_item", "get_release_items", "search_work_items", "list_releases",
     "list_projects", "update_work_item_state"}

\* the tracker as getWorkItemWithDetails meets it: the session the client holds
\* and what the tracker answers the item request and the member requests with
TrackerSeen(file, clock, sts) ==
    [session |-> IF getAuthHeaders(file, clock) = Throw THEN "none"
                 ELSE IF sts[1] = 401 THEN "expired"
                 ELSE "valid",
     items |-> IF sts[1] = 200 THEN TrackedItems ELSE <<>>,
     members |-> IF sts[2] = 200 THEN (S_LFY :> ((S_u1 :> S_amy) @@ (S_u2 :> S_bob))) ELSE <<>>]

\* the answer of the tracker to a list request: nothing, or one entry
ListBody(some, entry) == IF some THEN Arr(<<entry>>) ELSE Arr(<<>>)

\* getCurrentUser(): the user info saved with the credentials, or null
getCurrentUser(file) ==
    IF file.kind = "json" /\ Truthy(file.credentials.user) THEN file.credentials.user ELSE Null

\* currentUser?.id || ''
CurrentUserId(file) == Or(OptGet(getCurrentUser(file), "id"), Str(<<>>))

\* the result of tool for work item LFY-42, project LFY and state name 'done'
ApiTool(tool, file, clock, sts, some) ==
    CASE tool = "get_work_item" ->
           getWorkItem(S_LFY42, getWorkItemWithDetails(TrackerSeen(file, clock, sts), S_LFY42), 0)
      [] tool = "get_release_items" ->
           getReleaseItems(
               Client_getReleaseWorkItems(file, clock, sts, ListBody(some, Obj(TrackedOps)), Undef),
               (S_u1 :> S_amy) @@ (S_u2 :> S_bob),
               CurrentUserId(file))
      [] tool = "search_work_items" ->
           ListingTool(Client_searchWorkItems(file, clock, sts[1], ListBody(some, Obj(TrackedOps))),
                       S_searchEmpty, S_searchListing)
      [] tool = "list_releases" ->
           ListingTool(Client_getProjectReleases(file, clock, sts, ListBody(some, Obj([_id |-> Str(<<"r">>)]))),
                       S_releasesEmpty, S_releasesListing)
      [] tool = "list_projects" ->
           ListingTool(Client_getProjects(file, clock, sts[1], ListBody(some, Obj([_id |-> Str(<<"p">>)]))),
                       S_projectsEmpty, S_projectsListing)
      [] tool = "update_work_item_state" ->
           updateWorkItemState(
               S_LFY42, S_doneWord,
               Client_getSelectableStates(file, clock, sts[1],
                   ListBody(some, Obj([_id |-> Str(<<"s", "1">>), name |-> Str(S_doneWord)]))),
               file, clock, sts[2]).result

ApiMethods ==
    {"getWorkItem", "getProjectId", "getReleaseWorkItems", "getProjectReleases",
     "searchWorkItems", "getProjectMembers", "getProjects", "getSelectableStates",
     "updateWorkItemState", "updateBugProperty", "getImageToken"}

\* what method m of the client does
ApiMethod(m, file, clock, sts, some) ==
    CASE m = "getWorkItem" ->
           Client_getWorkItem(file, clock, sts[1], IF some THEN Obj(TrackedOps) ELSE Obj(<<>>))
      [] m = "getProjectId" -> Client_getProjectId(file, clock, sts[1])
      [] m = "getReleaseWorkItems" ->
           Client_getReleaseWorkItems(file, clock, sts, ListBody(some, Obj(TrackedOps)), Str(S_bugWord))
      [] m = "getProjectReleases" ->
           Client_getProjectReleases(file, clock, sts, ListBody(some, Obj([_id |-> Str(<<"r">>)])))
      [] m = "searchWorkItems" ->
           Client_searchWorkItems(file, clock, sts[1], ListBody(some, Obj(TrackedOps)))
      [] m = "getProjectMembers" ->
           Client_getProjectMembers(file, clock, sts,
               ListBody(some, Obj([uid |-> Str(S_u1), display_name |-> Str(S_amy)])))
      [] m = "getProjects" ->
           Client_getProjects(file, clock, sts[1], ListBody(some, Obj([_id |-> Str(<<"p">>)])))
      [] m = "getSelectableStates" ->
           Client_getSelectableStates(file, clock, sts[1],
               ListBody(some, Obj([_id |-> Str(<<"s", "1">>), name |-> Str(S_doneWord)])))
      [] m = "updateWorkItemState" ->
           Client_updateWorkItemState(file, clock, sts[1], Str(<<"s", "1">>))
      [] m = "updateBugProperty" ->
           Client_updateBugProperty(file, clock, sts, IF some THEN Obj(TrackedOps) ELSE Obj(<<>>))
      [] m = "getImageToken" -> Client_getImageToken(file, clock, sts[1])

----------------------------------------------------------------------------
(* AuthSpec: login, logout, checkAuth and the tracker-backed tools are called in *)
(* any order while the clock advances                                            *)

MaxClock == 2

\* the cookies the browser may hold at login: it holds no cookie that has
\* expired; expires is -1 for a cookie that lasts as long as the browser session
CookieSid == [name |-> S_sid, value |-> <<"a">>, domain |-> <<".">> \o S_pingcodeCom, expires |-> -1]
CookieToken(clock) ==
    [name |-> S_accessToken, value |-> <<"b">>, domain |-> <<".">> \o S_pingcodeCom,
     expires |-> clock + 1]
CookieFeishu == [name |-> S_session, value |-> <<"c">>, domain |-> S_feishuCn, expires |-> -1]

BrowserJars(clock) ==
    { <<>>, <<CookieFeishu>>, <<CookieSid>>, <<CookieToken(clock)>>,
      <<CookieSid, CookieToken(clock)>>, <<CookieFeishu, CookieToken(clock)>> }

LoginUsers == {Undef, Obj([id |-> Str(S_u1), name |-> Str(S_amy)])}

\* what the browser may do during a login at the time the clock reads clock
Browsers(clock) ==
    {BrowserFailed, BrowserTimedOut}
      \cup {BrowserLanded(jar, user) : jar \in BrowserJars(clock), user \in LoginUsers}

\* what the tracker answers the first and the second request of a call with
StatusPairs == {<<200, 200>>, <<200, 401>>, <<401, 200>>, <<404, 200>>}

\* whether the stored credentials are valid now
SessionValid == isCredentialsValid(loadCredentials(credfile), now)

AuthInit ==
    /\ credfile = FileAbsent
    /\ now = 0
    /\ loggedOut = FALSE
    /\ alast = [op |-> "none"]
    /\ dpc = "idle"
    /\ RenderIdle /\ WalkIdle /\ StripIdle /\ FormatIdle /\ TimeIdle /\ PipelineIdle
    /\ ClientIdle /\ ToolIdle /\ ReleaseIdle /\ UpdateIdle

\* the login tool
Login ==
    \E browser \in Browsers(now), fs \in FsOutcomes :
        LET done == login(credfile, now, browser, fs)
        IN /\ credfile' = done.file
           /\ loggedOut' = IF done.success THEN FALSE ELSE loggedOut
           /\ alast' = [op |-> "login", valid |-> SessionValid,
                        out |-> [success |-> done.success, message |-> done.message,
                                 saved |-> done.saved, untouched |-> done.file = credfile,
                                 usable |-> isCredentialsValid(loadCredentials(done.file), now)]]
           /\ UNCHANGED <<now, dpc, OutsideAuth>>

\* the logout tool
Logout ==
    \E fs \in FsOutcomes \ {"torn"} :
        LET done == logout(credfile, fs)
        IN /\ credfile' = done.file
           /\ loggedOut' = TRUE
           /\ alast' = [op |-> "logout", valid |-> SessionValid,
                        out |-> [success |-> done.success, message |-> done.message]]
           /\ UNCHANGED <<now, dpc, OutsideAuth>>

\* the check_auth tool
CheckAuth ==
    /\ alast' = [op |-> "check_auth", valid |-> SessionValid, out |-> checkAuth(credfile, now)]
    /\ UNCHANGED <<credfile, now, loggedOut, dpc, OutsideAuth>>

\* one of the tools backed by the tracker's API
CallApiTool ==
    \E tool \in ApiTools, sts \in StatusPairs, some \in BOOLEAN :
        /\ alast' = [op |-> tool, valid |-> SessionValid,
                     out |-> ApiTool(tool, credfile, now, sts, some)]
        /\ UNCHANGED <<credfile, now, loggedOut, dpc, OutsideAuth>>

\* a second passes
Tick ==
    /\ now < MaxClock
    /\ now' = now + 1
    /\ UNCHANGED <<credfile, loggedOut, alast, dpc, OutsideAuth>>

AuthNext == Login \/ Logout \/ CheckAuth \/ CallApiTool \/ Tick

AuthSpec == AuthInit /\ [][AuthNext]_vars

----------------------------------------------------------------------------
(* MethodSpec: one method of the client is called once, whatever the credentials *)
(* file holds                                                                    *)

MethodInit ==
    /\ \/ credfile \in {FileAbsent, FileTorn}
       \/ \E t \in 0..MaxClock : \E jar \in BrowserJars(t), user \in LoginUsers :
             /\ login(FileAbsent, t, BrowserLanded(jar, user), "ok").success
             /\ credfile = login(FileAbsent, t, BrowserLanded(jar, user), "ok").file
    /\ now \in 0..MaxClock
    /\ credfile.kind = "json" => credfile.credentials.saved_at <= DateNow(now)
    /\ loggedOut = FALSE
    /\ alast = [op |-> "none"]
    /\ dpc = "idle"
    /\ RenderIdle /\ WalkIdle /\ StripIdle /\ FormatIdle /\ TimeIdle /\ PipelineIdle
    /\ ClientIdle /\ ToolIdle /\ ReleaseIdle /\ UpdateIdle

\* one of the client's methods
CallApiMethod ==
    /\ alast.op = "none"
    /\ \E m \in ApiMethods, sts \in StatusPairs, some \in BOOLEAN :
          alast' = [op |-> m, valid |-> SessionValid,
                    out |-> ApiMethod(m, credfile, now, sts, some)]
    /\ UNCHANGED <<credfile, now, loggedOut, dpc, OutsideAuth>>

MethodNext == CallApiMethod

MethodSpec == MethodInit /\ [][MethodNext]_vars

----------------------------------------------------------------------------
(* DetailsSpec: a fetch of work item LFY-42 by getWorkItemWithDetails runs in two *)
(* steps, and login, logout and the passing of time may come between them         *)

\* getWorkItemWithDetails, up to the return of getWorkItem: without an item the
\* call is over
DetailsFetch ==
    /\ dpc = "idle"
    /\ \E st \in Statuses :
          LET found == ClientGetWorkItem(TrackerSeen(credfile, now, <<st, 200>>), S_LFY42)
          IN IF found.kind = "item"
             THEN /\ dpc' = "fetched"
                  /\ alast' = [op |-> "getWorkItem", valid |-> SessionValid, out |-> found]
             ELSE /\ dpc' = "idle"
                  /\ alast' = [op |-> "getWorkItemWithDetails", valid |-> SessionValid,
                               fetched |-> FALSE, out |-> found]
    /\ UNCHANGED <<credfile, now, loggedOut, OutsideAuth>>

\* getWorkItemWithDetails, from the call of getProjectMembers to the return
DetailsResolve ==
    /\ dpc = "fetched"
    /\ \E st \in Statuses :
          alast' = [op |-> "getWorkItemWithDetails", valid |-> SessionValid,
                    fetched |-> TRUE,
                    out |-> ResolveNames(
                                ClientItem(Obj(TrackedItems[S_LFY42])),
                                getProjectMembers(TrackerSeen(credfile, now, <<200, st>>),
                                                  ProjectIdentifier(S_LFY42)))]
    /\ dpc' = "idle"
    /\ UNCHANGED <<credfile, now, loggedOut, OutsideAuth>>

DetailsNext == Login \/ Logout \/ Tick \/ DetailsFetch \/ DetailsResolve

DetailsSpec == AuthInit /\ [][DetailsNext]_vars

----------------------------------------------------------------------------
(* ReleaseSpec: the getReleaseItems tool is called once for a release, with a *)
(* valid session and a tracker that answers every request                     *)

MaxItems == 2

\* credentials saved by a login at time 0 that are valid at time 0
SessionFile ==
    login(FileAbsent, 0,
          BrowserLanded(<< [name |-> S_accessToken, value |-> <<"b">>,
                            domain |-> <<".">> \o S_pingcodeCom, expires |-> 1] >>, Undef),
          "ok").file

\* a work item of a release, of the given type
ReleaseItem(n, type) ==
    Obj([_id |-> Str(<<"i">> \o n),
         whole_identifier |-> Str(S_LFY \o <<"-">> \o n),
         title |-> Str(<<"t">> \o n),
         type |-> type,
         state_type |-> Num(2),
         assignee |-> Str(S_u1)])

\* a requirement, a user story, a task, a bug, and a bug whose type is embedded
ReleasePool ==
    { ReleaseItem(<<"2">>, Num(2)), ReleaseItem(<<"3">>, Num(3)), ReleaseItem(<<"4">>, Num(4)),
      ReleaseItem(<<"5">>, Num(5)), ReleaseItem(<<"6">>, Obj([name |-> Str(<<"B", "u", "g">>)])) }

ItemTypes == {Undef, Str(S_bugWord), Str(S_storyWord), Str(S_all)}

ReleaseInit ==
    /\ litems \in UNION {[1..k -> ReleasePool] : k \in 0..MaxItems}
    /\ ltype \in ItemTypes
    /\ lmembers \in {(S_u1 :> S_amy) @@ (S_u2 :> S_bob), <<>>}
    /\ luser \in {Str(<<>>), Str(S_u1)}
    /\ lkept = NoValue
    /\ lout = NoValue
    /\ lpc = "ready"
    /\ RenderIdle /\ WalkIdle /\ StripIdle /\ FormatIdle /\ TimeIdle /\ PipelineIdle
    /\ ClientIdle /\ ToolIdle /\ AuthIdle /\ UpdateIdle

\* getReleaseItems(releaseId, projectId, itemType)
GetReleaseItems ==
    /\ lpc = "ready"
    /\ lkept' = Client_getReleaseWorkItems(SessionFile, 0, <<200, 200>>, Arr(litems), ltype)
    /\ lout' = getReleaseItems(lkept', lmembers, luser)
    /\ lpc' = "done"
    /\ UNCHANGED <<litems, ltype, lmembers, luser, OutsideRelease>>

ReleaseNext == GetReleaseItems

ReleaseSpec == ReleaseInit /\ [][ReleaseNext]_vars

----------------------------------------------------------------------------
(* UpdateSpec: the updateWorkItemState tool is called once, with a valid session, *)
(* for a work item whose state the tracker holds                                  *)

MaxStates == 2

S_undoneWord == <<"u", "n">> \o S_doneWord
S_openWord == <<"o", "p", "e", "n">>
S_closedWord == <<"c", "l", "o", "s", "e", "d">>

\* the selectable states: 'done', 'undone', 'closed' shown as 'done', and 'open'
StatePool ==
    { Obj([_id |-> Str(<<"s", "1">>), name |-> Str(S_doneWord)]),
      Obj([_id |-> Str(<<"s", "2">>), name |-> Str(S_undoneWord)]),
      Obj([_id |-> Str(<<"s", "3">>), name |-> Str(S_closedWord), display_name |-> Str(S_doneWord)]),
      Obj([_id |-> Str(<<"s", "4">>), name |-> Str(S_openWord)]) }

StateNames == {S_doneWord, S_openWord, <<"x">>, <<>>}

UpdateInit ==
    /\ ustates \in UNION {[1..k -> StatePool] : k \in 0..MaxStates}
    /\ uname \in StateNames
    /\ ustate = Str(<<"s", "0">>)
    /\ uresult = NoValue
    /\ usent = <<>>
    /\ upc = "ready"
    /\ RenderIdle /\ WalkIdle /\ StripIdle /\ FormatIdle /\ TimeIdle /\ PipelineIdle
    /\ ClientIdle /\ ToolIdle /\ AuthIdle /\ ReleaseIdle

\* updateWorkItemState(workItemId, stateName); the tracker takes the state of an
\* update request it answers with status 200
UpdateWorkItemState ==
    /\ upc = "ready"
    /\ \E sts \in [1..2 -> Statuses] :
          LET done == updateWorkItemState(
                          S_LFY42, uname,
                          Client_getSelectableStates(SessionFile, 0, sts[1], Arr(ustates)),
                          SessionFile, 0, sts[2])
          IN /\ uresult' = done.result
             /\ usent' = done.sent
             /\ ustate' = IF done.sent # <<>> /\ sts[2] = 200 THEN done.sent[1] ELSE ustate
    /\ upc' = "done"
    /\ UNCHANGED <<ustates, uname, OutsideUpdate>>

UpdateNext == UpdateWorkItemState

UpdateSpec == UpdateInit /\ [][UpdateNext]_vars

----------------------------------------------------------------------------
(* properties of the renderer *)

\* the nodes directly below a node, or the blocks of a content list, in order
KidsOf(v) ==
    IF IsArr(v) THEN v.v
    ELSE IF v.t = "object" /\ IsArr(Get(v, "children")) THEN Get(v, "children").v
    ELSE <<>>

IsChild(x, v) == \E i \in 1..Len(KidsOf(v)) : KidsOf(v)[i] = x

RECURSIVE IsDescendant(_, _)
IsDescendant(x, v) ==
    \E i \in 1..Len(KidsOf(v)) : KidsOf(v)[i] = x \/ IsDescendant(x, KidsOf(v)[i])

RECURSIVE NodeSize(_)
RECURSIVE SizeFrom(_, _)
\* the number of nodes of a tree
NodeSize(v) == 1 + SizeFrom(KidsOf(v), 1)

SizeFrom(kids, from) == IF from > Len(kids) THEN 0 ELSE NodeSize(kids[from]) + SizeFrom(kids, from + 1)

\* C1: every call of parseCommentContent, parseBlockElement or parseInlineElement,
\* on well-formed and on malformed trees alike, returns a string and raises no
\* exception.
RendererTotal == rpc = "done" => IsStr(rendered)

\* C2 as stated: every renderer call in progress was made on a child of the node
\* its caller is rendering.
CallsOnChildren ==
    \A i \in 2..Len(stack) : IsChild(stack[i].node, stack[i - 1].node)

\* every renderer call in progress was made on a strictly smaller node below the
\* node its caller is rendering
CallsDescend ==
    \A i \in 2..Len(stack) :
        /\ IsDescendant(stack[i].node, stack[i - 1].node)
        /\ NodeSize(stack[i].node) < NodeSize(stack[i - 1].node)

RECURSIVE Work(_, _)
RECURSIVE WorkFrom(_, _)
\* the steps a call takes from its start to its return: a call step and the work of
\* each callee, and the return step
Work(fn, node) == 1 + WorkFrom(Callees(fn, node), 1)

\* the steps of the callees c[from], c[from + 1], ... with their call steps
WorkFrom(c, from) ==
    IF from > Len(c) THEN 0
    ELSE 1 + Work(c[from].fn, c[from].node) + WorkFrom(c, from + 1)

\* the steps left to the call at position i of a stack: its return, and the
\* callees it has not started yet (the callee at next is in progress unless the
\* call is on top)
FrameRemaining(stk, i) ==
    1 + WorkFrom(Callees(stk[i].fn, stk[i].node), IF i = Len(stk) THEN stk[i].next ELSE stk[i].next + 1)

RECURSIVE MeasureUpTo(_, _)
MeasureUpTo(stk, i) == IF i = 0 THEN 0 ELSE FrameRemaining(stk, i) + MeasureUpTo(stk, i - 1)

\* the steps left to the whole rendering
Measure(stk) == MeasureUpTo(stk, Len(stk))

\* a rendering in progress can take a step
CanStep ==
    \/ Top.next <= Len(Callees(Top.fn, Top.node))
    \/ Top.next > Len(Callees(Top.fn, Top.node))

\* C2, amended: every recursive call of the renderer is made on a strict
\* descendant of the current node (a child, or in the list case a child of one of
\* the list's items), and the rendering of every tree ends: each step of a
\* rendering in progress lowers the number of steps left, a rendering in progress
\* can always step, and parseCommentContent returns a string or, on a malformed
\* node, raises.
RecursionDescendsAndEnds ==
    /\ [](CallsDescend)
    /\ [](wstate = "running" => stack # <<>> /\ CanStep)
    /\ [](wstate = "returned" => IsStr(wresult))
    /\ [][wstate = "running" => Measure(stack') < Measure(stack)]_vars

\* a rendering that returned after nested calls through a list, on a tree three
\* levels deep
DeepListRendered ==
    /\ wstate = "returned"
    /\ \E i \in 1..Len(KidsOf(wcontent)) :
          LET b == KidsOf(wcontent)[i]
          IN /\ \E j \in 1..Len(KidsOf(b)) :
                   Get(KidsOf(b)[j], "type") \in {Str(S_bulleted_list), Str(S_numbered_list)}
             /\ NodeSize(b) >= 4

InlineSpanKinds == {Str(S_link), Str(S_mention)}

\* a list item whose children are all link or mention spans
ItemOfInlineSpans(n) ==
    /\ n.t = "object"
    /\ Get(n, "type") = Str(S_list_item)
    /\ IsArr(Get(n, "children"))
    /\ Get(n, "children").v # <<>>
    /\ \A i \in 1..Len(KidsOf(n)) :
          KidsOf(n)[i].t = "object" /\ Get(KidsOf(n)[i], "type") \in InlineSpanKinds

\* C9: a link or mention span directly inside a list item is rendered by the inline
\* rules, as inside a paragraph: the list item renders to the concatenation of
\* parseInlineElement of its children.
ListItemUsesInlineRules ==
    (rpc = "done" /\ rinput.fn = "parseBlockElement" /\ ItemOfInlineSpans(rinput.arg))
        => LET kids == Get(rinput.arg, "children").v
           IN rendered = JoinResults([i \in 1..Len(kids) |-> parseInlineElement(kids[i])], <<>>)

KnownKinds ==
    {Str(S_link), Str(S_mention), Str(S_image), Str(S_paragraph), Str(S_code), Str(S_blockquote),
     Str(S_bulleted_list), Str(S_numbered_list), Str(S_list_item)}

\* a node of a kind neither renderer knows, whose children field is absent or a
\* list and whose text and content fields are absent or non-empty strings
UnknownKindNode(n) ==
    /\ n.t = "object"
    /\ IsStr(Get(n, "type")) /\ Truthy(Get(n, "type")) /\ Get(n, "type") \notin KnownKinds
    /\ Get(n, "children") = Undef \/ IsArr(Get(n, "children"))
    /\ \A k \in {"text", "content"} : Get(n, k) = Undef \/ (IsStr(Get(n, k)) /\ Truthy(Get(n, k)))

\* the fallback chain of C10
FallbackChain(n) ==
    LET children == Get(n, "children")
    IN IF children # Undef
       THEN JoinResults([i \in 1..Len(children.v) |-> parseInlineElement(children.v[i])], <<>>)
       ELSE IF Get(n, "text") # Undef THEN Get(n, "text")
       ELSE IF Get(n, "content") # Undef THEN Get(n, "content")
       ELSE Str(<<>>)

\* C10: a node of unrecognized kind renders, in block and in inline context alike,
\* to the concatenation of its rendered children if it has children, otherwise to
\* its text field if present, otherwise to its content field if present, otherwise
\* to the empty string.
UnknownKindFallsBack ==
    (rpc = "done" /\ rinput.fn \in {"parseBlockElement", "parseInlineElement"} /\ UnknownKindNode(rinput.arg))
        => rendered = FallbackChain(rinput.arg)

\* a list block whose children field is a list of nodes, each with no children
\* field or with a list of children that the renderer renders
ListOfItems(n) ==
    /\ n.t = "object"
    /\ Get(n, "type") \in {Str(S_bulleted_list), Str(S_numbered_list)}
    /\ IsArr(Get(n, "children"))
    /\ \A i \in 1..Len(KidsOf(n)) :
          LET c == KidsOf(n)[i]
          IN /\ c.t = "object"
             /\ Get(c, "children") = Undef \/ IsArr(Get(c, "children"))
             /\ \A j \in 1..Len(KidsOf(c)) : parseBlockElement(KidsOf(c)[j]) # Throw

RECURSIVE Concat(_)
Concat(strings) == IF strings = <<>> THEN <<>> ELSE Head(strings) \o Concat(Tail(strings))

\* content_i: the concatenated rendering of the children of a list's child
ItemContent(c) == Concat([j \in 1..Len(KidsOf(c)) |-> ToStr(parseBlockElement(KidsOf(c)[j]))])

\* prefix_i, for i counted from 1
ItemPrefix(n, i) ==
    IF Get(n, "type") = Str(S_numbered_list) THEN NatToStr(i) \o <<".", " ">> ELSE <<"-", " ">>

\* the lines of a text: none for the empty text
LinesOf(s) == IF s = <<>> THEN <<>> ELSE Split(s, "\n")

SingleLine(s) == \A i \in DOMAIN s : s[i] # "\n"

\* C11: a bulleted or numbered list with children c1..cn renders to the newline-join,
\* in the original order, of prefix_i + content_i, with prefix_i "- " for a bulleted
\* list and "i. " (i counted from 1) for a numbered list and content_i the concatenated
\* rendering of the children of c_i; when every content_i is a single line the result
\* has exactly n lines, and line i is prefix_i + content_i.
ListRendersItemLines ==
    (rpc = "done" /\ rinput.fn = "parseBlockElement" /\ ListOfItems(rinput.arg))
        => LET n == rinput.arg
               kids == KidsOf(n)
               expected == [i \in 1..Len(kids) |-> ItemPrefix(n, i) \o ItemContent(kids[i])]
           IN /\ rendered = Str(JoinLines(expected))
              /\ (\A i \in 1..Len(kids) : SingleLine(ItemContent(kids[i])))
                    => /\ Len(LinesOf(rendered.v)) = Len(kids)
                       /\ \A i \in 1..Len(kids) : LinesOf(rendered.v)[i] = expected[i]

\* a numbered list of two items with single-line content was rendered to two lines
NumberedListRendered ==
    /\ rpc = "done" /\ rinput.fn = "parseBlockElement" /\ ListOfItems(rinput.arg)
    /\ Get(rinput.arg, "type") = Str(S_numbered_list)
    /\ Len(KidsOf(rinput.arg)) = 2
    /\ \A i \in 1..2 : ItemContent(KidsOf(rinput.arg)[i]) # <<>> /\ SingleLine(ItemContent(KidsOf(rinput.arg)[i]))
    /\ IsStr(rendered) /\ Len(LinesOf(rendered.v)) = 2
    /\ SubSeq(LinesOf(rendered.v)[2], 1, 3) = <<"2", ".", " ">>

\* a blockquote whose children field is a list of blocks that the renderer renders
QuoteOfBlocks(n) ==
    /\ n.t = "object"
    /\ Get(n, "type") = Str(S_blockquote)
    /\ IsArr(Get(n, "children"))
    /\ \A i \in 1..Len(KidsOf(n)) : parseBlockElement(KidsOf(n)[i]) # Throw

\* the renderings of the children of a node, joined by newline
RenderedKids(n) == JoinLines([i \in 1..Len(KidsOf(n)) |-> ToStr(parseBlockElement(KidsOf(n)[i]))])

\* C12: a blockquote with child blocks renders to the renderings of its children
\* joined by newline with every line prefixed by "> ", each line of a child of several
\* lines included: every line of the result starts with "> ", and the lines without
\* that prefix, joined by newline, are the newline-join of the rendered children.
QuotePrefixesEveryLine ==
    (rpc = "done" /\ rinput.fn = "parseBlockElement" /\ QuoteOfBlocks(rinput.arg))
        => /\ IsStr(rendered)
           /\ LET lines == Split(rendered.v, "\n")
              IN /\ \A i \in 1..Len(lines) : Len(lines[i]) >= 2 /\ SubSeq(lines[i], 1, 2) = <<">", " ">>
                 /\ JoinLines([i \in 1..Len(lines) |-> SubSeq(lines[i], 3, Len(lines[i]))])
                       = RenderedKids(rinput.arg)

\* a blockquote holding a child of several lines was rendered
MultiLineQuoteRendered ==
    /\ rpc = "done" /\ rinput.fn = "parseBlockElement" /\ QuoteOfBlocks(rinput.arg)
    /\ \E i \in 1..Len(KidsOf(rinput.arg)) : ~SingleLine(ToStr(parseBlockElement(KidsOf(rinput.arg)[i])))
    /\ IsStr(rendered) /\ Len(Split(rendered.v, "\n")) >= 3

\* the kinds parseBlockElement has a rule for
BlockRuleKinds ==
    {S_paragraph, S_code, S_image, S_blockquote, S_bulleted_list, S_numbered_list, S_list_item}

\* a block of a kind parseBlockElement has no rule for, with a list of children
UnknownBlockWithChildren(b) ==
    /\ b.t = "object"
    /\ Truthy(Get(b, "type"))
    /\ Get(b, "type") \notin {Str(k) : k \in BlockRuleKinds}
    /\ IsArr(Get(b, "children"))
    /\ Get(b, "children").v # <<>>

\* what the inline renderer's fallback makes of a node: its children as inline
\* spans with nothing between them, or its text
InlineFallback(n) ==
    IF Truthy(Get(n, "children"))
    THEN JoinResults([i \in 1..Len(Get(n, "children").v) |-> parseInlineElement(Get(n, "children").v[i])], <<>>)
    ELSE Or(Get(n, "text"), Str(<<>>))

\* a node of a kind that has a block rule and no inline rule
BlockKindNode(n) ==
    n.t = "object" /\ Get(n, "type") \in {Str(k) : k \in BlockRuleKinds \ {S_image}}

\* C23: a block of unrecognized kind with children renders as its children put
\* through the inline renderer and concatenated with no separator; a child of a
\* known block kind is rendered by the inline fallback, not by its block rule
UnknownBlockRendersInline ==
    (rpc = "done" /\ rinput.fn = "parseBlockElement" /\ UnknownBlockWithChildren(rinput.arg)) =>
        LET kids == Get(rinput.arg, "children").v
            spans == [i \in 1..Len(kids) |->
                        IF kids[i].t = "object" /\ BlockKindNode(kids[i]) THEN InlineFallback(kids[i])
                        ELSE parseInlineElement(kids[i])]
        IN rendered = IF MapThrows(spans) THEN Throw ELSE Str(Join(spans, <<>>))

\* an unknown block holding a text and a code block has been rendered: the code
\* block contributes nothing, where its block rule gives a fenced block
CodeInsideUnknownBlockRendered ==
    /\ rpc = "done"
    /\ rinput = [fn |-> "parseBlockElement", arg |-> Node(S_div, <<TextA, CodeGo>>)]
    /\ rendered = Str(<<"a">>)
    /\ parseBlockElement(CodeGo) # Str(<<>>)

----------------------------------------------------------------------------
(* properties of stripHtml *)

\* C3: stripHtml is idempotent on its own output: stripHtml(stripHtml(h)) = stripHtml(h),
\* also for an h that holds escaped entities
StripIdempotent == spc = "twice" => stwice = sonce

----------------------------------------------------------------------------
(* properties of formatTimestamp *)

\* a number n with lo < n <= hi, each given as a pair
PairAbove(v, lo) == v[1] > lo[1] \/ (v[1] = lo[1] /\ v[2] > lo[2])

TenToThe9 == <<1000, 0>>
TenToThe12 == <<1000000, 0>>

\* an absent or zero timestamp renders as the empty string
AbsentTimestampEmpty ==
    (tpc # "ready" /\ tstamp \in {Undef, Null, Num(0)}) => tsec = Str(<<>>)

\* C14 as stated: a value above 10^12 is taken as milliseconds and any other non-zero
\* value as seconds, so for every timestamp s > 0 in seconds the rendering of s equals
\* the rendering of 1000 * s; an absent or zero timestamp renders as the empty string.
EveryEpochPairAgrees ==
    /\ AbsentTimestampEmpty
    /\ (tpc = "both" /\ PairAbove(tstamp.v, <<0, 0>>)) => tms = tsec

\* C14: a value above 10^12 is rendered as the date that many milliseconds after the
\* epoch and any other non-zero number as the date that many seconds after it; the
\* rendering of s equals the rendering of 1000 * s exactly for 10^9 < s <= 10^12, the
\* timestamps s for which 1000 * s is above the threshold and s is not; an absent or
\* zero timestamp renders as the empty string.
EpochsAgreeAboveThreshold ==
    /\ AbsentTimestampEmpty
    /\ (tpc # "ready" /\ tstamp.t = "number" /\ tstamp # Num(0)) =>
          tsec = IF PairAbove(tstamp.v, TenToThe12)
                 THEN Str(DateToLocaleString(tstamp.v[1], tstamp.v[2], tzone))
                 ELSE Str(DateToLocaleString(Times1000(tstamp).v[1], Times1000(tstamp).v[2], tzone))
    /\ (tpc = "both" /\ PairAbove(tstamp.v, <<0, 0>>)) =>
          (tms = tsec <=> (PairAbove(tstamp.v, TenToThe9) /\ ~PairAbove(tstamp.v, TenToThe12)))

\* 1700000000 and 1700000000000 were rendered, to the same minute of 2023-11-14
BothEpochsRendered ==
    /\ tpc = "both"
    /\ tstamp = BigNum(1700, 0)
    /\ tzone = 0
    /\ tsec = Str(<<"2", "0", "2", "3", "/", "1", "1", "/", "1", "4", " ", "2", "2", ":", "1", "3">>)
    /\ tms = tsec

----------------------------------------------------------------------------
(* properties of formatWorkItem *)

\* C4: formatWorkItem never throws, whatever the raw record holds: a field that is
\* absent or of an unexpected type degrades to a sentinel value
FormatNeverThrows == fpc = "done" => fout # Throw

FieldNames ==
    {"id", "title", "type", "state", "priority", "assignee", "createdBy", "createdAt",
     "updatedAt", "description"}

\* C5: in every WorkItemData that formatWorkItem returns, the value of each field is
\* a string
FieldValuesAreStrings ==
    (fpc = "done" /\ fout # Throw) => \A k \in FieldNames : IsStr(Get(Get(fout, k), "value"))

\* the chain of C13: the pre-resolved name when non-empty, else the display_name or
\* the name of an embedded object, else the sentinel
ResolvedName(item, nameField, rawField, sentinel) ==
    LET name == Get(item, nameField)
        raw == Get(item, rawField)
    IN IF Truthy(name) THEN name
       ELSE IF raw.t = "object" /\ Truthy(Get(raw, "display_name")) THEN Get(raw, "display_name")
       ELSE IF raw.t = "object" /\ Truthy(Get(raw, "name")) THEN Get(raw, "name")
       ELSE Str(sentinel)

\* C13: formatWorkItem resolves the assignee and the creator by the same chain: the
\* pre-resolved name field (assignee_name, created_by_name) when non-empty; otherwise,
\* when the raw field (assignee, created_by) is an embedded object, its display_name,
\* else its name; otherwise the sentinel, "not set" for the assignee and the empty
\* string for the creator.
AssigneeAndCreatorResolved ==
    (fpc = "done" /\ fout # Throw) =>
        /\ ValueOf(fout, "assignee") = ResolvedName(fitem, "assignee_name", "assignee", S_notSet)
        /\ ValueOf(fout, "createdBy") = ResolvedName(fitem, "created_by_name", "created_by", <<>>)

\* the label of a numeric type code
LabelOfCode(code) ==
    CASE code = Num(2) -> S_requirement
      [] code = Num(3) -> S_userStory
      [] code = Num(4) -> S_task
      [] code = Num(5) -> S_bug
      [] code = Num(6) -> S_epic
      [] OTHER -> S_workItem

\* C15: the type name of formatWorkItem: a raw type that is a number is looked up in
\* the fixed table 2, 3, 4, 5, 6 (requirement, user story, task, bug, epic) and any
\* other number gives the generic label "work item"; a raw type that is an object gives
\* its display_name, else its name, else "unknown"; an absent type gives "unknown".
TypeNameResolved ==
    (fpc = "done" /\ fout # Throw) =>
        LET type == Get(fitem, "type")
        IN /\ type.t = "number" => ValueOf(fout, "type") = Str(LabelOfCode(type))
           /\ type.t = "object" =>
                 ValueOf(fout, "type") =
                     IF Truthy(Get(type, "display_name")) THEN Get(type, "display_name")
                     ELSE IF Truthy(Get(type, "name")) THEN Get(type, "name")
                     ELSE Str(S_unknown)
           /\ type = Undef => ValueOf(fout, "type") = Str(S_unknown)

\* a record of numeric type 3 was formatted as a user story
UserStoryCodeResolved ==
    /\ fpc = "done" /\ fout # Throw
    /\ Get(fitem, "type") = Num(3)
    /\ ValueOf(fout, "type") = Str(S_userStory)

\* the label of a priority id of the table
LabelOfPriority(id) ==
    CASE id = Str(S_priorityId1) -> S_urgent
      [] id = Str(S_priorityId2) -> S_high
      [] id = Str(S_priorityId3) -> S_medium
      [] id = Str(S_priorityId4) -> S_low

PriorityIds == {Str(S_priorityId1), Str(S_priorityId2), Str(S_priorityId3), Str(S_priorityId4)}

\* C16: the priority name of formatWorkItem: a priority id that is one of the four ids
\* of PRIORITY_MAP gives its label; a priority that the table does not resolve gives
\* the embedded priority name when there is one; an unknown id with no embedded name,
\* and an absent priority, give "not set".
PriorityNameResolved ==
    (fpc = "done" /\ fout # Throw) =>
        LET priority == Get(fitem, "priority")
        IN /\ priority \in PriorityIds => ValueOf(fout, "priority") = Str(LabelOfPriority(priority))
           /\ priority.t = "object" =>
                 ValueOf(fout, "priority") =
                     IF Truthy(Get(priority, "name")) THEN Get(priority, "name") ELSE Str(S_notSet)
           /\ (IsStr(priority) /\ priority \notin PriorityIds) => ValueOf(fout, "priority") = Str(S_notSet)
           /\ priority = Undef => ValueOf(fout, "priority") = Str(S_notSet)

----------------------------------------------------------------------------
(* properties of getWorkItemString *)

Written == fpc = "written"

DocAttachments == Get(fout, "attachments").v
DocComments == Get(fout, "comments").v

\* the data of a field is non-empty
NonEmpty(k) == Truthy(ValueOf(fout, k))

\* a metadata line
MetaLine(label, k) ==
    <<"-", " ", "*", "*">> \o label \o <<"*", "*", ":", " ">> \o ToStr(ValueOf(fout, k))

\* the parts of the document in their order, each with the condition under which it
\* is present
DocumentParts ==
    << [present |-> TRUE,
        lines |-> << <<"#", "#", " ">> \o ToStr(ValueOf(fout, "id")) \o <<" ", "-", " ">>
                       \o ToStr(ValueOf(fout, "title")),
                     <<>>,
                     MetaLine(L_type, "type"), MetaLine(L_state, "state"),
                     MetaLine(L_priority, "priority"), MetaLine(L_assignee, "assignee") >>],
       [present |-> NonEmpty("createdBy"), lines |-> <<MetaLine(L_createdBy, "createdBy")>>],
       [present |-> NonEmpty("createdAt"), lines |-> <<MetaLine(L_createdAt, "createdAt")>>],
       [present |-> NonEmpty("updatedAt"), lines |-> <<MetaLine(L_updatedAt, "updatedAt")>>],
       [present |-> NonEmpty("description"),
        lines |-> << <<>>, <<"#", "#", "#", " ">> \o L_description, <<>>,
                     ToStr(ValueOf(fout, "description")) >>],
       [present |-> DocAttachments # <<>>,
        lines |-> << <<>>, S_attachmentsHeading, <<>> >>
                    \o [i \in 1..Len(DocAttachments) |-> AttachmentLine(DocAttachments[i])]],
       [present |-> DocComments # <<>>,
        lines |-> << <<>>, S_commentsHeadingOpen \o NatToStr(Len(DocComments)) \o <<")">>, <<>> >>
                    \o CommentLines(DocComments, 1)] >>

RECURSIVE PresentLines(_, _)
\* the lines of the parts from the i-th on that are present
PresentLines(parts, i) ==
    IF i > Len(parts) THEN <<>>
    ELSE (IF parts[i].present THEN parts[i].lines ELSE <<>>) \o PresentLines(parts, i + 1)

\* the document has its parts in the fixed order, each optional part present if and
\* only if its data is non-empty
PartsInOrder == fdoc = Str(JoinLines(PresentLines(DocumentParts, 1)))

HasLine(doc, line) == \E i \in 1..Len(Split(doc, "\n")) : Split(doc, "\n")[i] = line

HasLineFrom(doc, prefix) ==
    \E i \in 1..Len(Split(doc, "\n")) :
        LET l == Split(doc, "\n")[i]
        IN Len(l) >= Len(prefix) /\ SubSeq(l, 1, Len(prefix)) = prefix

\* C17 as stated: the document has the fixed section order, each optional part is
\* present if and only if its data is non-empty, and the document has an attachments
\* heading only for a record with attachments and a comments heading only for a record
\* with comments.
HeadingsOnlyWithData ==
    Written =>
        /\ PartsInOrder
        /\ HasLine(fdoc.v, S_attachmentsHeading) <=> DocAttachments # <<>>
        /\ HasLineFrom(fdoc.v, S_commentsHeadingOpen) <=> DocComments # <<>>

\* C17: the document is the heading, a blank line, the type, state, priority and
\* assignee lines, then the creator, created-at and updated-at lines, the description
\* section, the attachments section and the comments section, in that order, each of
\* the optional parts emitted if and only if its data is non-empty; for a record with
\* no attachments and no comments nothing follows the description section, or the
\* metadata lines when the description is empty.
SectionsEmittedInOrder ==
    Written =>
        /\ PartsInOrder
        /\ (DocAttachments = <<>> /\ DocComments = <<>>) =>
              fdoc = Str(JoinLines(PresentLines(SubSeq(DocumentParts, 1, 5), 1)))

\* the document of a record with a description, no attachments and no comments, and
\* the document of a record with all the optional parts
PlainDocumentWritten ==
    /\ Written
    /\ DocAttachments = <<>> /\ DocComments = <<>>
    /\ NonEmpty("description") /\ NonEmpty("createdAt") /\ ~NonEmpty("createdBy")
    /\ ~HasLine(fdoc.v, S_attachmentsHeading)
    /\ HasLine(fdoc.v, <<"#", "#", "#", " ">> \o L_description)

\* the comments of the raw record
RawComments == Get(fitem, "comments").v

\* the three lines of the i-th comment of the raw record: the header with number,
\* author and formatted time, the quote line with the rendered body, and a blank line
CommentBlock(i) ==
    LET comment == RawComments[i]
        author == IF Truthy(Get(comment, "created_by_name"))
                  THEN ToStr(Get(comment, "created_by_name")) ELSE S_user
        time == formatTimestamp(Get(comment, "created_at"), fzone)
        content == ToStr(parseCommentContent(Get(comment, "content")))
    IN << <<"*", "*">> \o NatToStr(i) \o <<".", " ">> \o author \o <<"*", "*", " ", "(">> \o time \o <<")", ":">>,
          <<">", " ">> \o content,
          <<>> >>

RECURSIVE CommentBlocks(_)
\* the blocks of comments 1..n, in input order
CommentBlocks(n) == IF n = 0 THEN <<>> ELSE CommentBlocks(n - 1) \o CommentBlock(n)

\* the comments section of a record with n comments
CommentsSection(n) ==
    JoinLines(<< <<>>, S_commentsHeadingOpen \o NatToStr(n) \o <<")">>, <<>> >> \o CommentBlocks(n))

HasComments == IsArr(Get(fitem, "comments")) /\ Len(RawComments) >= 1

\* C18: for a record with n >= 1 comments the document closes with the comments
\* section: the heading that carries the count n, then the comments in input order,
\* numbered 1..n, each as a header line with the author and the formatted time, a
\* quote line "> " + content with content the parseCommentContent rendering of the
\* comment's body, and a blank line, which separates it from the next comment.
CommentsNumberedInOrder ==
    (Written /\ HasComments) =>
        LET section == CommentsSection(Len(RawComments))
            start == Len(fdoc.v) - Len(section)
        IN /\ start >= 1
           /\ fdoc.v[start] = "\n"
           /\ SubSeq(fdoc.v, start + 1, Len(fdoc.v)) = section
           /\ Len(DocComments) = Len(RawComments)
           /\ \A i \in 1..Len(RawComments) :
                 Get(DocComments[i], "content") = parseCommentContent(Get(RawComments[i], "content"))

\* the document of a record with two comments, by amy and by bob
TwoCommentsWritten ==
    /\ Written /\ HasComments
    /\ Len(RawComments) = 2
    /\ HasLineFrom(fdoc.v, <<"*", "*", "1", ".", " ">> \o S_amy \o <<"*", "*", " ", "(", "2", "0", "2", "3">>)
    /\ HasLineFrom(fdoc.v, <<"*", "*", "2", ".", " ">> \o S_bob \o <<"*", "*", " ", "(", "2", "0", "2", "3">>)
    /\ HasLine(fdoc.v, S_commentsHeadingOpen \o <<"2", ")">>)

----------------------------------------------------------------------------
(* properties of the pipeline *)

----------------------------------------------------------------------------
(* properties of the client *)

\* C20: the tool accepts an identifier with or without a leading "#": for every
\* identifier X the call with "#" + X succeeds exactly when the call with X does, and
\* then returns the same work item, with the same resolved assignee, creator and
\* comment-author names, and the same text.
HashPrefixIgnored ==
    cpc = "both" =>
        /\ Get(chash, "success") = Get(cbare, "success")
        /\ Get(cbare, "success") = Bool(TRUE) =>
              /\ Get(chash, "workItem") = Get(cbare, "workItem")
              /\ Get(chash, "data") = Get(cbare, "data")

----------------------------------------------------------------------------
(* properties of getWorkItem *)

\* s holds sub as a contiguous part
Contains(s, sub) == \E i \in 0..(Len(s) - Len(sub)) : SubSeq(s, i + 1, i + Len(sub)) = sub

\* the first position of sub in s, 0 when s does not hold it
FirstIndex(s, sub) ==
    IF Contains(s, sub)
    THEN 1 + CHOOSE i \in 0..(Len(s) - Len(sub)) :
               /\ SubSeq(s, i + 1, i + Len(sub)) = sub
               /\ \A j \in 0..(i - 1) : SubSeq(s, j + 1, j + Len(sub)) # sub
    ELSE 0

Succeeded == pc = "done" /\ Get(result, "success") = Bool(TRUE)

ResultItem == Get(result, "workItem")
ResultText == Get(result, "data").v
ResultDirectives == Get(result, "aiDirectives")
ResultLabel == ValueOf(ResultItem, "type")

\* the commit prefix the type label stands for
PrefixOfLabel(label) ==
    IF label = Str(S_bug) THEN S_fix
    ELSE IF label \in {Str(S_requirement), Str(S_userStory), Str(S_epic)} THEN S_feat
    ELSE S_chore

\* C6: on success the suggested commit message is "#" + id + " " + prefix + ": " + title,
\* with prefix fix for the label of a bug, feat for a requirement, a user story or an
\* epic, and chore for a task or any other label; aiDirectives.commit.suggested_message
\* holds it and the returned text contains it
SuggestedCommitMessage ==
    Succeeded =>
        LET message == <<"#">> \o ToStr(ValueOf(ResultItem, "id")) \o <<" ">>
                         \o PrefixOfLabel(ResultLabel) \o <<":", " ">>
                         \o ToStr(ValueOf(ResultItem, "title"))
        IN /\ Get(Get(ResultDirectives, "commit"), "suggested_message") = Str(message)
           /\ Contains(ResultText, message)

\* the bug root-cause-analysis protocol block
BugBlock == JoinLines(BugAnalysisLines)

\* C7 as stated: the returned text contains the bug analysis block if and only if the
\* type label is that of a bug, and then the block comes before the record's heading
BugBlockIffBugLabel ==
    Succeeded =>
        /\ Contains(ResultText, BugBlock) <=> ResultLabel = Str(S_bug)
        /\ ResultLabel = Str(S_bug) =>
              FirstIndex(ResultText, BugBlock) < FirstIndex(ResultText, HeadingLine(ResultItem))

\* C7: the tool emits the bug analysis block if and only if the type label is that of
\* a bug: the fixed block stands directly after the four fixed header lines of the
\* returned text exactly when the label is that of a bug, and it ends before the
\* formatted record, which closes the text, begins
BugBlockEmittedIffBugLabel ==
    Succeeded =>
        LET record == getWorkItemString(ResultItem)
            start == Len(ResultText) - Len(record)
        IN /\ SubSeq(ResultText, Len(PromptHead) + 1, Len(PromptHead) + Len(BugBlock)) = BugBlock
                <=> ResultLabel = Str(S_bug)
           /\ SubSeq(ResultText, 1, Len(PromptHead)) = PromptHead
           /\ start >= Len(PromptHead)
           /\ SubSeq(ResultText, start + 1, Len(ResultText)) = record
           /\ SubSeq(record, 1, Len(HeadingLine(ResultItem))) = HeadingLine(ResultItem)
           /\ ResultLabel = Str(S_bug) => Len(PromptHead) + Len(BugBlock) <= start

\* a bug record was fetched and the block was emitted
BugRecordFetched ==
    /\ Succeeded
    /\ ResultLabel = Str(S_bug)
    /\ FirstIndex(ResultText, BugBlock) = Len(PromptHead) + 1

\* C8: every successful result carries the fixed policy: single-task mode, the three
\* flags true, the fixed list of forbidden actions, work_item_id equal to the id of the
\* work item, a required first output that names that id, equal to the required output
\* of nextRequiredAction and contained in the returned text
FixedPolicy ==
    Succeeded =>
        LET required == Get(ResultDirectives, "required_first_output")
        IN /\ Get(ResultDirectives, "mode") = Str(S_single_task)
           /\ Get(ResultDirectives, "stop_after_fix") = Bool(TRUE)
           /\ Get(ResultDirectives, "ask_commit_after_fix") = Bool(TRUE)
           /\ Get(ResultDirectives, "wait_user_reply_before_next_item") = Bool(TRUE)
           /\ Get(ResultDirectives, "forbidden_actions")
                = Arr(<<Str(S_forbidden1), Str(S_forbidden2), Str(S_forbidden3)>>)
           /\ Get(ResultDirectives, "work_item_id") = ValueOf(ResultItem, "id")
           /\ IsStr(required)
           /\ Contains(required.v, ToStr(ValueOf(ResultItem, "id")))
           /\ Get(Get(result, "nextRequiredAction"), "required_output") = required
           /\ Contains(ResultText, required.v)

\* the record LFY-42 was fetched
PolicyIssuedForRecord ==
    /\ Succeeded
    /\ ValueOf(ResultItem, "id") = Str(S_LFY42)
    /\ Get(ResultDirectives, "work_item_id") = Str(S_LFY42)


\* the fields a successful result of getWorkItem carries
SuccessFields == {"success", "data", "workItem", "aiDirectives", "nextRequiredAction"}

\* C24: getWorkItem reports every failure as a value and never throws: no item
\* found gives {success: false, error: not-found message}, a step that raised
\* gives {success: false, error: message}; a result with success = true carries
\* data, workItem, aiDirectives and nextRequiredAction; the handler sets isError
\* exactly on the failed results
FailuresAreValues ==
    pc = "done" =>
        /\ result.t = "object"
        /\ client.kind = "none" =>
               result = Failure(Str(S_notFoundOpen \o identifier \o S_notFoundClose))
        /\ client.kind = "error" => result = Failure(client.message)
        /\ (client.kind = "item" /\ formatWorkItem(client.item, hostZone) = Throw) =>
               result = Failure(Str(S_typeErrorMessage))
        /\ Get(result, "success") \in {Bool(TRUE), Bool(FALSE)}
        /\ Get(result, "success") = Bool(TRUE) =>
               /\ DOMAIN result.v = SuccessFields
               /\ \A f \in SuccessFields : Get(result, f) # Undef
        /\ Get(result, "success") = Bool(FALSE) =>
               /\ DOMAIN result.v = {"success", "error"}
               /\ Get(result, "error").t = "string"
        /\ ("isError" \in DOMAIN response.v) <=> (Get(result, "success") = Bool(FALSE))
        /\ ("isError" \in DOMAIN response.v) => Get(response, "isError") = Bool(TRUE)

ClientErrorReported ==
    /\ pc = "done"
    /\ client.kind = "error"
    /\ result = Failure(client.message)
    /\ Get(response, "isError") = Bool(TRUE)

----------------------------------------------------------------------------
(* properties of login, logout and checkAuth *)

\* C21: in every state after logout has returned and before a later login
\* succeeds, checkAuth reports authenticated = false and each tool backed by the
\* tracker's API fails with the not-logged-in error
LoggedOutUntilLogin ==
    loggedOut =>
        /\ checkAuth(credfile, now).authenticated = FALSE
        /\ \A tool \in ApiTools, sts \in StatusPairs, some \in BOOLEAN :
              ApiTool(tool, credfile, now, sts, some) = Failure(Str(S_notLoggedIn))

\* C28: a failed login leaves the stored credentials untouched: when login
\* returns success = false, saveCredentials has not been called and the file is
\* as it was before the call, so a session that was valid before is still valid
FailedLoginLeavesCredentials ==
    (alast.op = "login" /\ ~alast.out.success) =>
        /\ ~alast.out.saved
        /\ alast.out.untouched
        /\ alast.valid => alast.out.usable

\* C29: a successful login yields a usable session: when login returns
\* success = true, the credentials it has just saved satisfy isCredentialsValid
\* at that moment, so a checkAuth that follows at once reports authenticated = true
SuccessfulLoginIsUsable ==
    (alast.op = "login" /\ alast.out.success) =>
        /\ alast.out.usable
        /\ checkAuth(credfile, now).authenticated

----------------------------------------------------------------------------
(* properties of the client's methods *)

\* the stored credentials are absent, hold no cookies, hold no cookie whose name
\* contains pingcode, session or token, or have expires_at in the past
WithoutValidCredentials ==
    \/ credfile.kind # "json"
    \/ credfile.credentials.cookies = <<>>
    \/ \A i \in DOMAIN credfile.credentials.cookies :
           LET name == credfile.credentials.cookies[i].name
           IN ~Contains(name, S_pingcode) /\ ~Contains(name, S_session) /\ ~Contains(name, S_token)
    \/ credfile.credentials.expires_at # 0 /\ credfile.credentials.expires_at < DateNow(now)

\* C25: without valid stored credentials each method of the client that talks to
\* the API fails with the not-logged-in error before any request is sent
NoRequestWithoutCredentials ==
    (alast.op \in ApiMethods /\ WithoutValidCredentials) =>
        /\ alast.out.kind = "raise"
        /\ alast.out.message = S_notLoggedIn
        /\ alast.out.sent = <<>>

ExpiredSessionRefused ==
    /\ alast.op = "updateWorkItemState"
    /\ credfile.kind = "json"
    /\ \E i \in DOMAIN credfile.credentials.cookies :
           Contains(credfile.credentials.cookies[i].name, S_token)
    /\ credfile.credentials.expires_at # 0
    /\ credfile.credentials.expires_at < DateNow(now)
    /\ alast.out = Raised(S_notLoggedIn, <<>>)

\* C30: member-name resolution cannot fail a work-item fetch: once getWorkItem
\* has returned the item inside getWorkItemWithDetails, the operation returns
\* that item under every interleaving with logout, login or credential expiry; a
\* failed member lookup only leaves the names unresolved
FetchedItemIsReturned ==
    (alast.op = "getWorkItemWithDetails" /\ alast.fetched) =>
        /\ alast.out.kind = "item"
        /\ Get(alast.out.item, "identifier") = Get(Obj(TrackedItems[S_LFY42]), "identifier")

----------------------------------------------------------------------------
(* properties of the release listing *)

\* C22: with item_type 'bug' getReleaseWorkItems returns exactly the items the
\* listing puts under its defect heading, with 'story' exactly the items it puts
\* under its requirement heading (type 2 or 3), and with 'all' or no item_type
\* every item of the release
FilterSelectsByClassification ==
    lpc = "done" =>
        /\ lkept.kind = "return"
        /\ lkept.value.v = CASE ltype = Str(S_bugWord) -> ReleaseBugs(litems)
                             [] ltype = Str(S_storyWord) -> ReleaseStories(litems)
                             [] OTHER -> litems

----------------------------------------------------------------------------
(* properties of the updateWorkItemState tool *)

\* some selectable state matches the requested name, exactly or as a part
SomeStateMatches ==
    \E i \in DOMAIN ustates :
        \E f \in {"name", "display_name"} :
            /\ f \in DOMAIN ustates[i].v
            /\ Contains(ustates[i].v[f].v, uname)

\* the _id values of the selectable states
SelectableIds == {ustates[i].v["_id"] : i \in DOMAIN ustates}

\* the names the selectable states are shown under, joined by '、'
ShownStates ==
    Join([i \in DOMAIN ustates |->
              IF "display_name" \in DOMAIN ustates[i].v THEN ustates[i].v["display_name"]
              ELSE ustates[i].v["name"]], S_listComma)

\* the errors of a getSelectableStates that did not get the list
FetchErrors ==
    {Str(Client_getSelectableStates(SessionFile, 0, st, Arr(ustates)).message) :
         st \in Statuses \ {200}}

\* C26: the tool sends the update only when the selectable-state list is non-empty
\* and holds a state matching the requested name; with an empty list or no match
\* it returns success = false (listing the available states when nothing
\* matches), sends no update and leaves the work item's state as it was; the
\* state id it sends is the _id of one of the selectable states
UpdateOnlyToSelectableState ==
    upc = "done" =>
        /\ usent # <<>> =>
               /\ ustates # <<>>
               /\ SomeStateMatches
               /\ Len(usent) = 1
               /\ usent[1] \in SelectableIds
        /\ (ustates = <<>> \/ ~SomeStateMatches) =>
               /\ Get(uresult, "success") = Bool(FALSE)
               /\ usent = <<>>
               /\ ustate = Str(<<"s", "0">>)
        /\ ustates = <<>> =>
               \/ uresult = Failure(Str(S_noStatesOpen \o S_LFY42 \o S_noStatesClose))
               \/ Get(uresult, "error") \in FetchErrors
        /\ (ustates # <<>> /\ ~SomeStateMatches) =>
               \/ uresult = Failure(Str(S_noMatchOpen \o uname \o S_noMatchMid \o ShownStates))
               \/ Get(uresult, "error") \in FetchErrors
        /\ ustate # Str(<<"s", "0">>) => (usent = <<ustate>> /\ ustate \in SelectableIds)

NoMatchListsStates ==
    /\ upc = "done"
    /\ uname = <<"x">>
    /\ Len(ustates) = 2
    /\ Get(ustates[1], "name") = Str(S_closedWord)
    /\ Get(ustates[2], "name") = Str(S_openWord)
    /\ uresult = Failure(Str(S_noMatchOpen \o <<"x">> \o S_noMatchMid
                               \o S_doneWord \o S_listComma \o S_openWord))
    /\ usent = <<>>
    /\ ustate = Str(<<"s", "0">>)

\* selectable state i has name or display_name equal to the requested name
ExactlyNamed(i) ==
    \E f \in {"name", "display_name"} :
        f \in DOMAIN ustates[i].v /\ ustates[i].v[f] = Str(uname)

\* C27: an exact match is never overridden by a substring match: when some
\* selectable state has name or display_name equal to the requested name, the
\* state the tool updates to has name or display_name equal to it, whatever the
\* order of the list
ExactMatchWins ==
    (upc = "done" /\ usent # <<>> /\ \E i \in DOMAIN ustates : ExactlyNamed(i)) =>
        \E i \in DOMAIN ustates : ExactlyNamed(i) /\ usent[1] = ustates[i].v["_id"]

====
